---- MODULE Spec2Model ----
(***************************************************************************)
(* Position lifecycle engines of the algo-trade server.                    *)
(*                                                                         *)
(*   DN  : DeltaNeutralEngine, the four-leg engine with resting SL/trail   *)
(*         orders (cron + /api/delta-neutral routes).  Its async handlers  *)
(*         are modelled segment by segment: one step runs the synchronous  *)
(*         code between two awaits.                                        *)
(*   IC  : IronCondorEngine (cron + /api/iron-condor routes).              *)
(*   DN2 : DeltaNeutralEngine on top of DeltaNeutralStrategy.              *)
(***************************************************************************)
EXTENDS Integers, Sequences, FiniteSets, TLC

\* ------------------------------------------------------------------ bounds
\* positions a behaviour may enter
MaxPos == 1
\* gateway / feed failures injected per behaviour
MaxFails == 1
\* ledger entries after which no new handler is started
MaxHist == 2

\* handlers that may overlap at their awaits
MaxInFlight == 2

\* closed positions archived while handlers overlap
MaxHistC == 1

\* gateway calls that fail while handlers overlap
MaxFailsC == 0

\* ------------------------------------------------------- DN: leg constants
\* Object.keys order of position.legs
LegKeys == <<"callBuy", "callSell", "putBuy", "putSell">>

KeySet == {"callBuy", "callSell", "putBuy", "putSell"}

BuyKeys == <<"callBuy", "putBuy">>

SellKeys == <<"callSell", "putSell">>

\* quantity of every order and the pnl multiplier
LotDN == 20

\* entry premium of a BUY leg in legDefs
BuyEntryPremium == 120

\* entry premium of a SELL leg in legDefs
SellEntryPremium == 80

\* the legs in the order enterPosition places them
legDefs ==
  << [key |-> "callBuy",  action |-> "BUY",  premium |-> BuyEntryPremium,  exitPriority |-> 3],
     [key |-> "putBuy",   action |-> "BUY",  premium |-> BuyEntryPremium,  exitPriority |-> 4],
     [key |-> "callSell", action |-> "SELL", premium |-> SellEntryPremium, exitPriority |-> 1],
     [key |-> "putSell",  action |-> "SELL", premium |-> SellEntryPremium, exitPriority |-> 2] >>

\* a slot of position.legs that holds null
NullLeg ==
  [status |-> "NONE", action |-> "", entryPremium |-> 0, currentPremium |-> 0,
   exitPriority |-> 0, pnl |-> 0, slOrderId |-> 0, trailOrderId |-> 0,
   closeReason |-> "", exitPremium |-> 0, exitOrder |-> "none", exitCount |-> 0]

\* the leg object enterPosition stores (exitOrder, exitCount: bookkeeping of
\* the market exit orders issued for the leg)
NewLeg(def) ==
  [status |-> "ACTIVE", action |-> def.action, entryPremium |-> def.premium,
   currentPremium |-> def.premium, exitPriority |-> def.exitPriority, pnl |-> 0,
   slOrderId |-> 0, trailOrderId |-> 0, closeReason |-> "", exitPremium |-> 0,
   exitOrder |-> "none", exitCount |-> 0]

EmptyLegs == [k \in KeySet |-> NullLeg]

\* _emptyPosition(); L names the fresh legs object, trailSL 0 stands for null
EmptyPosition(L) ==
  [status |-> "IDLE", legs |-> L, netDebit |-> 0, pnl |-> 0, lockedProfit |-> 0,
   trailSL |-> 0, lastBuyLeg |-> "", gen |-> 0]

\* the order-id fields _cancelLegOrders walks
OrderIdFields == <<"slOrderId", "trailOrderId">>

\* ------------------------------------------------------------- DN: state
VARIABLES
  paper,      \* PAPER_TRADE
  dnRunning,  \* engine.running
  dnPos,      \* engine.position
  dnLegs,     \* the legs objects still referenced, by identity
  dnHist,     \* engine.history
  dnStk,      \* per handler: the segments still to run
  dnCalls,    \* per handler: gateway calls issued by its current run
  dnGen,      \* positions entered so far
  dnFails     \* failures injected so far

dnVars == <<paper, dnRunning, dnPos, dnLegs, dnHist, dnStk, dnCalls, dnGen, dnFails>>

DnTasks == {"enter", "monitor", "monday", "exitAll", "exitLegs"}

\* ---------------------------------------------------- DN: interpreter state
\* no legs object
NoRef == -1

\* One handler's view while a segment runs: the engine state plus the
\* handler's own continuation (stk) and call log (calls).
Op(name) ==
  [op |-> name, L |-> NoRef, key |-> "", keys |-> <<>>, i |-> 0, f |-> 0,
   reason |-> "", v |-> 0]

\* identity of a legs object not yet in use
Fresh(S) == CHOOSE n \in 0..(Cardinality(DOMAIN S.legs)) : n \notin DOMAIN S.legs

Cont(S) == [s |-> S, y |-> FALSE]

Yield(S) == [s |-> S, y |-> TRUE]

Push(S, ops) == [S EXCEPT !.stk = ops \o @]

Log(S, c) == [S EXCEPT !.calls = Append(@, c)]

\* a gateway call: kind, the leg it is for, that leg's side, and whether the
\* leg had a resting SL/trail order id when the call was issued
Call(kind, key, leg) ==
  [kind |-> kind, key |-> key, side |-> leg.action,
   resting |-> (leg.slOrderId # 0 \/ leg.trailOrderId # 0)]

\* this.position.legs
CurLegs(S) == S.legs[S.pos.legs]

ActiveIn(lg, keys) == SelectSeq(keys, LAMBDA k : lg[k].status = "ACTIVE")

RECURSIVE SumPnl(_, _)
SumPnl(lg, keys) ==
  IF keys = <<>> THEN 0 ELSE lg[Head(keys)].pnl + SumPnl(lg, Tail(keys))

\* insert k into a sequence already ordered by prio
RECURSIVE InsertBy(_, _, _)
InsertBy(k, sorted, prio) ==
  IF sorted = <<>> THEN <<k>>
  ELSE IF prio[k] < prio[Head(sorted)] THEN <<k>> \o sorted
  ELSE <<Head(sorted)>> \o InsertBy(k, Tail(sorted), prio)

\* Array.prototype.sort((a, b) => prio[a] - prio[b]) : stable, ascending
RECURSIVE SortBy(_, _)
SortBy(keys, prio) ==
  IF keys = <<>> THEN <<>>
  ELSE InsertBy(keys[Len(keys)], SortBy(SubSeq(keys, 1, Len(keys) - 1), prio), prio)

\* sells (or buys) among keys, by ascending exitPriority
SideSorted(lg, keys, side) ==
  SortBy(SelectSeq(keys, LAMBDA k : lg[k].action = side),
         [k \in KeySet |-> lg[k].exitPriority])

\* pnl of a leg at premium ltp
LegPnl(leg, ltp) ==
  IF leg.action = "BUY" THEN (ltp - leg.entryPremium) * LotDN
  ELSE (leg.entryPremium - ltp) * LotDN

\* (current - entry) / entry <= -0.60
BuyLoss60(leg) ==
  (leg.currentPremium - leg.entryPremium) * 100 <= -60 * leg.entryPremium

\* (entry - current) / entry >= 0.60
SellGain60(leg) ==
  (leg.entryPremium - leg.currentPremium) * 100 >= 60 * leg.entryPremium

\* trail table of _checkTrail: levels / locks
TrailLevels == <<1000, 2000, 3000, 4000, 5000, 6000, 7000, 8000>>

TrailLocks == <<250, 1000, 1750, 2500, 3250, 4000, 4750, 5500>>

LockedFor(legPnl) ==
  LET hit == {i \in 1..Len(TrailLevels) : legPnl >= TrailLevels[i]}
  IN  IF hit = {} THEN 0
      ELSE TrailLocks[CHOOSE i \in hit : \A j \in hit : j <= i]

\* ------------------------------------------------ DN: handler segments
\* Each operator is the synchronous code of one place of the engine, run on
\* the handler view S with the popped segment o and the result r of the await
\* it resumes from.  It returns the new view and whether the code now awaits
\* I/O or a timer (y).

\* exits for keys, each followed by its 300 ms pause
RECURSIVE ExitOps(_, _)
ExitOps(keys, reason) ==
  IF keys = <<>> THEN <<>>
  ELSE << [Op("ExitSingle") EXCEPT !.key = Head(keys), !.reason = reason],
          Op("Delay") >> \o ExitOps(Tail(keys), reason)

CancelOps(keys) == << [Op("CancelScan") EXCEPT !.keys = keys, !.i = 1, !.f = 1] >>

\* _exitSingleLeg() that, besides closing key, sets the legs closed earlier
\* back to ACTIVE
MarkClosedReopening(S, L, key, reason, how) ==
  [S EXCEPT !.legs[L] =
     [k \in KeySet |->
        IF k = key
        THEN [S.legs[L][k] EXCEPT !.status = "CLOSED", !.closeReason = reason,
                                  !.exitPremium = S.legs[L][k].currentPremium,
                                  !.exitOrder = how]
        ELSE IF S.legs[L][k].status = "CLOSED"
        THEN [S.legs[L][k] EXCEPT !.status = "ACTIVE"]
        ELSE S.legs[L][k]]]

\* leg.status = 'CLOSED' ... leg.exitPremium = leg.currentPremium
MarkClosed(S, L, key, reason, how) ==
  [S EXCEPT !.legs[L][key] =
     [S.legs[L][key] EXCEPT !.status = "CLOSED", !.closeReason = reason,
                            !.exitPremium = S.legs[L][key].currentPremium,
                            !.exitOrder = how]]

\* monitor(), up to the getLTP await
DnMonitor(S, o, r) ==
  IF S.pos.status = "IDLE" THEN Cont(S)
  ELSE LET K == ActiveIn(CurLegs(S), LegKeys) IN
       IF K = <<>> THEN Cont(S)
       ELSE Yield(Push(S, << [Op("MonQuotes") EXCEPT !.L = S.pos.legs, !.keys = K] >>))

\* monitor() refreshing every leg of the position, the closed ones too (a leg
\* without a quote is valued at its entry premium)
DnMonQuotesAllLegs(S, o, r) ==
  IF ~r.ok THEN Cont([S EXCEPT !.stk = <<>>])
  ELSE
    LET held == SelectSeq(LegKeys, LAMBDA k : S.legs[o.L][k].status # "NONE")
        ltp(k) == IF r.q[k] # 0 THEN r.q[k] ELSE S.legs[o.L][k].entryPremium
        lg1 == [k \in KeySet |->
                  IF S.legs[o.L][k].status # "NONE"
                  THEN [S.legs[o.L][k] EXCEPT !.currentPremium = ltp(k),
                                              !.pnl = LegPnl(S.legs[o.L][k], ltp(k))]
                  ELSE S.legs[o.L][k]]
        S1 == [S EXCEPT !.legs[o.L] = lg1, !.pos.pnl = SumPnl(lg1, held)]
    IN  Cont(Push(S1, << Op("CheckSL"), Op("CheckTrail") >>))

\* monitor(), from the quotes to the call of _checkSLConditions
DnMonQuotes(S, o, r) ==
  IF ~r.ok THEN Cont([S EXCEPT !.stk = <<>>])
  ELSE
    LET quoted == SelectSeq(o.keys, LAMBDA k : r.q[k] # 0)
        lg1 == [k \in KeySet |->
                  IF \E n \in 1..Len(quoted) : quoted[n] = k
                  THEN [S.legs[o.L][k] EXCEPT !.currentPremium = r.q[k],
                                              !.pnl = LegPnl(S.legs[o.L][k], r.q[k])]
                  ELSE S.legs[o.L][k]]
        S1 == [S EXCEPT !.legs[o.L] = lg1, !.pos.pnl = SumPnl(lg1, quoted)]
    IN  Cont(Push(S1, << Op("CheckSL"), Op("CheckTrail") >>))

\* _checkSLConditions(), rules 1-4
DnCheckSL(S, o, r) ==
  LET L  == S.pos.legs
      lg == S.legs[L]
  IN  IF S.pos.pnl * 100 <= -(S.pos.netDebit * LotDN * 60)
      THEN Cont(Push(S, << [Op("ExitAll") EXCEPT !.reason = "Combined 60% SL"] >>))
      ELSE IF lg["callBuy"].status = "ACTIVE" /\ BuyLoss60(lg["callBuy"])
      THEN Cont(Push(S, << [Op("ExitPair") EXCEPT !.keys = <<"callSell", "callBuy">>,
                                                  !.reason = "Call Buy -60% SL"] >>))
      ELSE IF lg["putBuy"].status = "ACTIVE" /\ BuyLoss60(lg["putBuy"])
      THEN Cont(Push(S, << [Op("ExitPair") EXCEPT !.keys = <<"putSell", "putBuy">>,
                                                  !.reason = "Put Buy -60% SL"] >>))
      ELSE IF lg["callSell"].status = "ACTIVE" /\ SellGain60(lg["callSell"])
      THEN Cont(Push(S, << [Op("ExitSingle") EXCEPT !.key = "callSell",
                                                    !.reason = "Call Sell +60% SL"],
                           [Op("CheckSL5") EXCEPT !.L = L] >>))
      ELSE Cont(Push(S, << [Op("CheckSL5") EXCEPT !.L = L] >>))

\* _checkSLConditions(), rule 5 and the closing _updatePositionStatus()
DnCheckSL5(S, o, r) ==
  LET lg == S.legs[o.L] IN
  IF lg["putSell"].status = "ACTIVE" /\ SellGain60(lg["putSell"])
  THEN Cont(Push(S, << [Op("ExitSingle") EXCEPT !.key = "putSell",
                                                !.reason = "Put Sell +60% SL"],
                       Op("UPS") >>))
  ELSE Cont(Push(S, << Op("UPS") >>))

\* exitAll(), up to the cancels
DnExitAll(S, o, r) ==
  IF S.pos.status = "IDLE" THEN Cont(S)
  ELSE LET active == ActiveIn(CurLegs(S), LegKeys) IN
       Cont(Push(S, CancelOps(active) \o
                    << Op("Delay"),
                       [Op("ExitAll2") EXCEPT !.L = S.pos.legs, !.keys = active,
                                              !.reason = o.reason] >>))

\* exitAll(), from the sell/buy split to _closeEntirePosition
DnExitAll2(S, o, r) ==
  LET lg == S.legs[o.L]
      order == SideSorted(lg, o.keys, "SELL") \o SideSorted(lg, o.keys, "BUY")
  IN  Cont(Push(S, ExitOps(order, o.reason) \o
                   << [Op("CloseEntire") EXCEPT !.reason = o.reason, !.v = 1] >>))

\* _cancelLegOrders(): the two loops up to the next order id that is set
\* (`if (!leg) continue`, `if (!orderId) continue`); o past the keys when
\* none is left
RECURSIVE DnCancelSkip(_, _)
DnCancelSkip(S, o) ==
  IF o.i > Len(o.keys) THEN o
  ELSE
    LET k   == o.keys[o.i]
        L   == IF o.f = 1 THEN S.pos.legs ELSE o.L
        leg == S.legs[L][k]
    IN  IF leg.status = "NONE" \/ o.f > Len(OrderIdFields)
        THEN DnCancelSkip(S, [o EXCEPT !.i = o.i + 1, !.f = 1])
        ELSE IF leg[OrderIdFields[o.f]] = 0
        THEN DnCancelSkip(S, [o EXCEPT !.f = o.f + 1, !.L = L])
        ELSE [o EXCEPT !.L = L]

\* _cancelLegOrders(): walk to the next order id that is set and cancel it
DnCancelScan(S, o, r) ==
  CHOOSE res \in
    {IF p.i > Len(p.keys) THEN Cont(S)
     ELSE Yield(Push(Log(S, Call("cancel", p.keys[p.i], S.legs[p.L][p.keys[p.i]])),
                     << [Op("CancelDone") EXCEPT !.L = p.L, !.key = p.keys[p.i], !.f = p.f],
                        [p EXCEPT !.f = p.f + 1] >>)) :
       p \in {DnCancelSkip(S, o)}} : TRUE

\* _cancelLegOrders(): after cancelOrder settled
DnCancelDone(S, o, r) ==
  IF r.ok THEN Cont([S EXCEPT !.legs[o.L][o.key][OrderIdFields[o.f]] = 0])
  ELSE Cont(S)

\* await new Promise(r => setTimeout(r, ms)): the handler is suspended and
\* goes on with the segment that follows
DnDelay(S, o, r) == Yield(S)

\* a timer or an ignored call settled
DnNop(S, o, r) == Cont(S)

\* _exitSingleLeg(), up to placeOrderFull
DnExitSingle(S, o, r) ==
  LET L   == S.pos.legs
      leg == S.legs[L][o.key]
  IN  IF leg.status # "ACTIVE" THEN Cont(S)
      ELSE IF paper THEN Cont(MarkClosed(S, L, o.key, o.reason, "paper"))
      ELSE Yield(Push(Log([S EXCEPT !.legs[L][o.key].exitCount = @ + 1],
                          Call("exit", o.key, leg)),
                      << [Op("ExitMark") EXCEPT !.L = L, !.key = o.key,
                                               !.reason = o.reason] >>))

\* _exitSingleLeg(), after placeOrderFull settled
DnExitMark(S, o, r) ==
  Cont(MarkClosed(S, o.L, o.key, o.reason, IF r.ok THEN "ok" ELSE "failed"))

\* _closeEntirePosition(); o.v = 1 when the caller awaits it.  Of the
\* archived copy the ledger entry keeps gen, pnl and closeReason; was is the
\* status the position had and open the legs ACTIVE at that moment.
DnCloseEntire(S, o, r) ==
  LET lg    == CurLegs(S)
      total == SumPnl(lg, SelectSeq(LegKeys, LAMBDA k : lg[k].status # "NONE"))
      entry == [gen |-> S.pos.gen, pnl |-> total,
                closeReason |-> o.reason, status |-> "CLOSED",
                was |-> S.pos.status,
                open |-> {k \in KeySet : lg[k].status = "ACTIVE"}]
      newL  == Fresh(S)
      S1    == [S EXCEPT !.hist = Append(@, entry),
                         !.pos = EmptyPosition(newL),
                         !.legs = @ @@ (newL :> EmptyLegs)]
  IN  IF o.v = 1 THEN Yield(Push(S1, << Op("Nop") >>)) ELSE Cont(S1)

\* _updatePositionStatus()
DnUPS(S, o, r) ==
  LET lg          == CurLegs(S)
      allClosed   == \A k \in KeySet : lg[k].status \in {"NONE", "CLOSED"}
      activeBuys  == ActiveIn(lg, BuyKeys)
      activeSells == ActiveIn(lg, SellKeys)
  IN  IF allClosed
      THEN Cont(Push(S, << [Op("CloseEntire") EXCEPT !.reason = "All Legs Exited"] >>))
      ELSE IF activeSells = <<>> /\ activeBuys # <<>>
      THEN Cont([S EXCEPT !.pos.status = "PARTIAL", !.pos.lastBuyLeg = activeBuys[1]])
      ELSE Cont(S)

\* _exitPair(): the sort
DnExitPair(S, o, r) ==
  LET lg   == CurLegs(S)
      prio == [k \in KeySet |->
                 IF lg[k].exitPriority = 0 THEN 99 ELSE lg[k].exitPriority]
  IN  Cont(Push(S, << [Op("PairIter") EXCEPT !.keys = SortBy(o.keys, prio), !.i = 1,
                                             !.reason = o.reason] >>))

\* _exitPair(): one turn of the loop, then _updatePositionStatus()
DnPairIter(S, o, r) ==
  IF o.i > Len(o.keys) THEN Cont(Push(S, << Op("UPS") >>))
  ELSE IF CurLegs(S)[o.keys[o.i]].status # "ACTIVE"
  THEN Cont(Push(S, << [o EXCEPT !.i = o.i + 1] >>))
  ELSE Cont(Push(S, CancelOps(<< o.keys[o.i] >>) \o
                    ExitOps(<< o.keys[o.i] >>, o.reason) \o
                    << [o EXCEPT !.i = o.i + 1] >>))

\* _checkTrail(), up to the first await
DnCheckTrail(S, o, r) ==
  LET L           == S.pos.legs
      lg          == S.legs[L]
      activeBuys  == ActiveIn(lg, BuyKeys)
      activeSells == ActiveIn(lg, SellKeys)
  IN  IF Len(activeBuys) # 1 \/ Len(activeSells) # 0 THEN Cont(S)
      ELSE
        LET lastKey == activeBuys[1]
            leg     == lg[lastKey]
            locked  == LockedFor(leg.pnl)
            hit     == << [Op("TrailHit") EXCEPT !.key = lastKey, !.v = leg.pnl] >>
            S1      == [S EXCEPT !.pos.lastBuyLeg = lastKey]
        IN  IF locked > S1.pos.trailSL
            THEN Cont(Push([S1 EXCEPT !.pos.trailSL = locked, !.pos.lockedProfit = locked],
                           (IF ~paper /\ leg.trailOrderId # 0
                            THEN << [Op("TrailCancel") EXCEPT !.L = L, !.key = lastKey] >>
                            ELSE <<>>) \o
                           (IF ~paper
                            THEN << [Op("TrailPlace") EXCEPT !.L = L, !.key = lastKey] >>
                            ELSE <<>>) \o hit))
            ELSE Cont(Push(S1, hit))

\* _checkTrail(): cancel the old trail order (its outcome is ignored)
DnTrailCancel(S, o, r) ==
  Yield(Push(Log(S, Call("cancel", o.key, S.legs[o.L][o.key])), << Op("Nop") >>))

\* _checkTrail(): place the new trail order
DnTrailPlace(S, o, r) ==
  Yield(Push(Log(S, Call("trail", o.key, S.legs[o.L][o.key])),
             << [Op("TrailPlaced") EXCEPT !.L = o.L, !.key = o.key] >>))

\* _checkTrail(): leg.trailOrderId = order.order_id
DnTrailPlaced(S, o, r) ==
  IF r.ok THEN Cont([S EXCEPT !.legs[o.L][o.key].trailOrderId = 1]) ELSE Cont(S)

\* _checkTrail(): the trail-hit test; o.v is the legPnl read before the awaits
DnTrailHit(S, o, r) ==
  IF S.pos.trailSL > 0 /\ o.v <= S.pos.trailSL
  THEN Cont(Push(S, CancelOps(<< o.key >>) \o
                    << [Op("ExitSingle") EXCEPT !.key = o.key, !.reason = "Trail SL Hit"],
                       [Op("CloseEntire") EXCEPT !.reason = "Trail SL Hit", !.v = 1] >>))
  ELSE Cont(S)

\* mondayTimeExit(), up to the cancels
DnMonday(S, o, r) ==
  LET active == ActiveIn(CurLegs(S), LegKeys) IN
  IF active = <<>> THEN Cont(S)
  ELSE Cont(Push(S, CancelOps(active) \o
                    << Op("Delay"),
                       [Op("Monday2") EXCEPT !.L = S.pos.legs, !.keys = active] >>))

\* mondayTimeExit() with the BUY exits issued ahead of the SELL exits
DnMonday2BuysFirst(S, o, r) ==
  LET lg       == S.legs[o.L]
      sellLegs == SideSorted(lg, o.keys, "SELL")
      buyLegs  == SideSorted(lg, o.keys, "BUY")
  IN  Cont(Push(S, ExitOps(buyLegs, "Monday Time Exit") \o
                   ExitOps(sellLegs, "Monday Time Exit") \o
                   << [Op("CloseEntire") EXCEPT !.reason = "Monday 3:20 PM Exit",
                                                !.v = 1] >>))

\* mondayTimeExit(), steps 2 and 3 and _closeEntirePosition
DnMonday2(S, o, r) ==
  LET lg       == S.legs[o.L]
      sellLegs == SideSorted(lg, o.keys, "SELL")
      buyLegs  == SideSorted(lg, o.keys, "BUY")
  IN  Cont(Push(S, ExitOps(sellLegs, "Monday Time Exit") \o
                   ExitOps(buyLegs, "Monday Time Exit") \o
                   << [Op("CloseEntire") EXCEPT !.reason = "Monday 3:20 PM Exit",
                                                !.v = 1] >>))

\* exitLegs(legKeys, reason)
DnExitLegs(S, o, r) ==
  IF o.keys = <<>> THEN Cont(S)
  ELSE
    LET lg    == CurLegs(S)
        sells == SelectSeq(o.keys, LAMBDA k : lg[k].action = "SELL")
        buys  == SelectSeq(o.keys, LAMBDA k : lg[k].action = "BUY")
    IN  Cont(Push(S, CancelOps(o.keys) \o << Op("Delay") >> \o
                     ExitOps(sells \o buys, o.reason) \o << Op("UPS") >>))

\* enterPosition(): the spot quote is requested
DnEnter(S, o, r) == Yield(Push(S, << Op("EnterLTP") >>))

\* enterPosition(): this.position = this._emptyPosition(); status = 'ACTIVE'
DnEnterLTP(S, o, r) ==
  IF ~r.ok THEN Cont([S EXCEPT !.stk = <<>>])
  ELSE
    LET newL == Fresh(S) IN
    Cont(Push([S EXCEPT !.pos = [EmptyPosition(newL) EXCEPT !.status = "ACTIVE",
                                                           !.gen = S.gen + 1],
                        !.legs = @ @@ (newL :> EmptyLegs),
                        !.gen = @ + 1],
              << [Op("EntryIter") EXCEPT !.i = 1] >>))

\* enterPosition(): one turn of the legDefs loop, up to placeOrderFull
DnEntryIter(S, o, r) ==
  IF o.i > Len(legDefs) THEN Cont(Push(S, << Op("EnterFinish") >>))
  ELSE IF paper
  THEN Cont(Push([S EXCEPT !.legs[S.pos.legs][legDefs[o.i].key] = NewLeg(legDefs[o.i])],
                 << [o EXCEPT !.i = o.i + 1] >>))
  ELSE Yield(Push(Log(S, [kind |-> "entry", key |-> legDefs[o.i].key,
                          side |-> legDefs[o.i].action, resting |-> FALSE]),
                  << [Op("EntryPlaced") EXCEPT !.i = o.i] >>))

\* enterPosition(): this.position.legs[def.key] = {...}
DnEntryPlaced(S, o, r) ==
  Cont(Push([S EXCEPT !.legs[S.pos.legs][legDefs[o.i].key] = NewLeg(legDefs[o.i])],
            << [Op("EntryIter") EXCEPT !.i = o.i + 1] >>))

\* enterPosition(): netDebit, then _placeLegSLOrders()
DnEnterFinish(S, o, r) ==
  LET S1 == [S EXCEPT !.pos.netDebit =
               (BuyEntryPremium + BuyEntryPremium) - (SellEntryPremium + SellEntryPremium)]
  IN  IF paper THEN Cont(S1)
      ELSE Cont(Push(S1, << [Op("SLIter") EXCEPT !.L = S1.pos.legs,
                                                 !.keys = BuyKeys \o SellKeys, !.i = 1] >>))

\* _placeLegSLOrders(): one turn of its two loops, up to placeOrderFull
DnSLIter(S, o, r) ==
  IF o.i > Len(o.keys) THEN Cont(S)
  ELSE LET k == o.keys[o.i] leg == S.legs[o.L][k] IN
       IF leg.status # "ACTIVE" THEN Cont(Push(S, << [o EXCEPT !.i = o.i + 1] >>))
       ELSE Yield(Push(Log(S, Call("sl", k, leg)),
                       << [Op("SLPlaced") EXCEPT !.L = o.L, !.key = k],
                          [o EXCEPT !.i = o.i + 1] >>))

\* _placeLegSLOrders(): leg.slOrderId = order.order_id
DnSLPlaced(S, o, r) ==
  IF r.ok THEN Cont([S EXCEPT !.legs[o.L][o.key].slOrderId = 1]) ELSE Cont(S)

\* ---------------------------------------------------------- DN: scheduler
\* the code at segment o
Exec(S, o, r) ==
  CASE o.op = "Monitor"     -> DnMonitor(S, o, r)
    [] o.op = "MonQuotes"   -> DnMonQuotes(S, o, r)
    [] o.op = "CheckSL"     -> DnCheckSL(S, o, r)
    [] o.op = "CheckSL5"    -> DnCheckSL5(S, o, r)
    [] o.op = "ExitAll"     -> DnExitAll(S, o, r)
    [] o.op = "ExitAll2"    -> DnExitAll2(S, o, r)
    [] o.op = "CancelScan"  -> DnCancelScan(S, o, r)
    [] o.op = "CancelDone"  -> DnCancelDone(S, o, r)
    [] o.op = "Delay"       -> DnDelay(S, o, r)
    [] o.op = "Nop"         -> DnNop(S, o, r)
    [] o.op = "ExitSingle"  -> DnExitSingle(S, o, r)
    [] o.op = "ExitMark"    -> DnExitMark(S, o, r)
    [] o.op = "CloseEntire" -> DnCloseEntire(S, o, r)
    [] o.op = "UPS"         -> DnUPS(S, o, r)
    [] o.op = "ExitPair"    -> DnExitPair(S, o, r)
    [] o.op = "PairIter"    -> DnPairIter(S, o, r)
    [] o.op = "CheckTrail"  -> DnCheckTrail(S, o, r)
    [] o.op = "TrailCancel" -> DnTrailCancel(S, o, r)
    [] o.op = "TrailPlace"  -> DnTrailPlace(S, o, r)
    [] o.op = "TrailPlaced" -> DnTrailPlaced(S, o, r)
    [] o.op = "TrailHit"    -> DnTrailHit(S, o, r)
    [] o.op = "Monday"      -> DnMonday(S, o, r)
    [] o.op = "Monday2"     -> DnMonday2(S, o, r)
    [] o.op = "ExitLegs"    -> DnExitLegs(S, o, r)
    [] o.op = "Enter"       -> DnEnter(S, o, r)
    [] o.op = "EnterLTP"    -> DnEnterLTP(S, o, r)
    [] o.op = "EntryIter"   -> DnEntryIter(S, o, r)
    [] o.op = "EntryPlaced" -> DnEntryPlaced(S, o, r)
    [] o.op = "EnterFinish" -> DnEnterFinish(S, o, r)
    [] o.op = "SLIter"      -> DnSLIter(S, o, r)
    [] o.op = "SLPlaced"    -> DnSLPlaced(S, o, r)

\* segments that resume from a call whose failure the code handles
Failable == {"MonQuotes", "CancelDone", "ExitMark", "TrailPlaced", "SLPlaced", "EnterLTP"}

\* the result handed to a segment that resumes nothing
NoRes == [ok |-> TRUE, q |-> [k \in KeySet |-> 0]]

\* run a handler from its next segment until it awaits or returns
RECURSIVE Run(_, _)
Run(S, r) ==
  IF S.stk = <<>> THEN S
  ELSE CHOOSE T \in {IF res.y THEN res.s ELSE Run(res.s, NoRes) :
                        res \in {Exec([S EXCEPT !.stk = Tail(@)], Head(S.stk), r)}} : TRUE

\* handler t's view of the engine
View(t) ==
  [pos |-> dnPos, legs |-> dnLegs, hist |-> dnHist, gen |-> dnGen,
   stk |-> dnStk[t], calls |-> dnCalls[t], fails |-> dnFails, n |-> 0]

\* the legs objects a continuation still refers to
Refs(stk) == {stk[n].L : n \in 1..Len(stk)}

\* the engine after handler t ran one step to view S: legs objects that
\* neither the position nor a suspended handler refers to are dropped, and
\* the call log of a handler that returned is cleared
Commit(t, S) ==
  LET live == {S.pos.legs} \cup Refs(S.stk)
                \cup UNION {Refs(dnStk[u]) : u \in DnTasks \ {t}}
  IN  /\ dnPos' = S.pos
      /\ dnLegs' = [L \in (DOMAIN S.legs) \cap live |-> S.legs[L]]
      /\ dnHist' = S.hist
      /\ dnGen' = S.gen
      /\ dnFails' = S.fails
      /\ dnStk' = [dnStk EXCEPT ![t] = S.stk]
      /\ dnCalls' = [dnCalls EXCEPT ![t] = IF S.stk = <<>> THEN <<>> ELSE S.calls]

\* handlers suspended at an await
InFlight == {t \in DnTasks : dnStk[t] # <<>>}

\* handler t may be invoked between handlers: the ledger bound is not reached
MayStart(t) ==
  /\ dnStk[t] = <<>>
  /\ Len(dnHist) < MaxHist

\* handler t may be invoked while others are suspended: it is not already in
\* flight and the bounds on the ledger and on overlapping handlers are not
\* reached
MayBegin(t) ==
  /\ dnStk[t] = <<>>
  /\ Len(dnHist) < MaxHistC
  /\ Cardinality(InFlight) < MaxInFlight

\* invoke handler t at segment o; it runs to its first await
Start(t, o) ==
  /\ \E S \in {Run([View(t) EXCEPT !.stk = << o >>, !.calls = <<>>], NoRes)} :
       Commit(t, S)
  /\ UNCHANGED <<paper, dnRunning>>

\* the result of the await S is suspended at: quotes qv, and a failure when
\* the await is one of those chosen to fail (fs counts the awaits whose
\* failure the code handles, in the order the run reaches them)
Feed(S, qv, fs) ==
  IF Head(S.stk).op \in Failable /\ (S.n + 1) \in fs
  THEN [ok |-> FALSE, q |-> NoRes.q]
  ELSE [ok |-> TRUE, q |-> qv]

\* a suspended handler receives result r and runs to its next await
Resume(S, r) ==
  Run([S EXCEPT !.n = IF Head(S.stk).op \in Failable THEN @ + 1 ELSE @,
                !.fails = IF r.ok THEN @ ELSE @ + 1], r)

\* run a suspended handler until it returns
RECURSIVE Finish(_, _, _)
Finish(S, qv, fs) ==
  IF S.stk = <<>> THEN S
  ELSE CHOOSE T \in {Finish(S2, qv, fs) : S2 \in {Resume(S, Feed(S, qv, fs))}} : TRUE

\* the awaits that may be made to fail in a run that reaches n of them
FailSets(n) ==
  LET left == MaxFails - dnFails
  IN  IF left <= 0 THEN {{}}
      ELSE IF left = 1 THEN {{}} \cup {{i} : i \in 1..n}
      ELSE {fs \in SUBSET (1..(n + 1)) : Cardinality(fs) <= left}

\* invoke handler t at segment o and run it to completion
Whole(t, o, qv) ==
  /\ \E S0 \in {Run([View(t) EXCEPT !.stk = << o >>, !.calls = <<>>], NoRes)} :
       \E F0 \in {Finish(S0, qv, {})} :
         \E fs \in FailSets(F0.n) :
           \E S \in {IF fs = {} THEN F0 ELSE Finish(S0, qv, fs)} :
             /\ dnPos' = S.pos
             /\ dnLegs' = [L \in {S.pos.legs} |-> S.legs[L]]
             /\ dnHist' = S.hist
             /\ dnGen' = S.gen
             /\ dnFails' = S.fails
             /\ dnCalls' = [u \in DnTasks |-> IF u = t THEN S.calls ELSE <<>>]
  /\ UNCHANGED <<paper, dnRunning, dnStk>>

\* last prices the quote feed is observed with, one per market move the
\* stop, target and trail rules distinguish (0: the symbol is missing)
Quote(cb, cs, pb, ps) ==
  [callBuy |-> cb, callSell |-> cs, putBuy |-> pb, putSell |-> ps]

Markets ==
  { Quote(0, 0, 0, 0),       Quote(120, 80, 120, 80),
    Quote(40, 80, 200, 80),  Quote(200, 80, 40, 80),
    Quote(120, 30, 120, 80), Quote(120, 80, 120, 30),
    Quote(40, 80, 40, 80),   Quote(200, 80, 200, 80) }

\* the quotes kiteService.getLTP returns for the symbols of legs keys
QuoteVecs(M, keys) ==
  {[k \in KeySet |-> IF \E n \in 1..Len(keys) : keys[n] = k THEN m[k] ELSE 0] :
     m \in M}

\* the markets observed while handlers overlap
MarketsC == { Quote(120, 80, 120, 80), Quote(40, 80, 40, 80), Quote(120, 30, 120, 80) }

\* what the await ahead of segment o may have produced
Results(o) ==
  (IF o.op = "MonQuotes"
   THEN {[ok |-> TRUE, q |-> qv] : qv \in QuoteVecs(MarketsC, o.keys)}
   ELSE {NoRes})
  \cup
  (IF o.op \in Failable /\ dnFails < MaxFailsC
   THEN {[ok |-> FALSE, q |-> NoRes.q]}
   ELSE {})

\* legKeys bodies the /exit-legs route is called with
ExitLegsInputs ==
  { << "callBuy" >>, << "callSell" >>, << "putSell", "callSell" >>,
    << "putBuy", "putSell" >>, << "callBuy", "putBuy" >> }

\* cron '20 15 * * 5': if (this.running && this.position.status === 'IDLE')
EnterGuard == dnRunning /\ dnPos.status = "IDLE"

\* cron '20 15 * * 1': if (this.running && this.position.status !== 'IDLE')
MondayGuard == dnRunning /\ dnPos.status # "IDLE"

\* start() / stop()
DnStartStop ==
  /\ dnRunning' = ~dnRunning
  /\ UNCHANGED <<paper, dnPos, dnLegs, dnHist, dnStk, dnCalls, dnGen, dnFails>>

\* the Friday entry tick, run to completion
DnEnterTick ==
  /\ MayStart("enter")
  /\ dnGen < MaxPos
  /\ EnterGuard
  /\ Whole("enter", Op("Enter"), NoRes.q)

\* the every-minute monitor tick, run to completion
DnMonitorTick ==
  /\ MayStart("monitor")
  /\ dnRunning
  /\ \E qv \in QuoteVecs(Markets, ActiveIn(dnLegs[dnPos.legs], LegKeys)) :
       Whole("monitor", Op("Monitor"), qv)

\* the Monday 3:20 PM tick, run to completion
DnMondayTick ==
  /\ MayStart("monday")
  /\ MondayGuard
  /\ Whole("monday", Op("Monday"), NoRes.q)

\* POST /api/delta-neutral/exit-all, run to completion
DnExitAllCall ==
  /\ MayStart("exitAll")
  /\ Whole("exitAll", [Op("ExitAll") EXCEPT !.reason = "MANUAL_EXIT"], NoRes.q)

\* POST /api/delta-neutral/exit-legs, run to completion
DnExitLegsCall ==
  /\ MayStart("exitLegs")
  /\ \E ks \in ExitLegsInputs :
       Whole("exitLegs", [Op("ExitLegs") EXCEPT !.keys = ks, !.reason = "MANUAL_EXIT"],
             NoRes.q)

\* the same invocations as node runs them: the handler runs to its first
\* await and is suspended there
DnEnterBegin ==
  /\ MayBegin("enter")
  /\ dnGen < MaxPos
  /\ EnterGuard
  /\ Start("enter", Op("Enter"))

DnMonitorBegin ==
  /\ MayBegin("monitor")
  /\ dnRunning
  /\ Start("monitor", Op("Monitor"))

DnMondayBegin ==
  /\ MayBegin("monday")
  /\ MondayGuard
  /\ Start("monday", Op("Monday"))

\* an await of a suspended handler settles and the handler runs on
DnResume ==
  \E t \in DnTasks :
    /\ dnStk[t] # <<>>
    /\ \E r \in Results(Head(dnStk[t])) :
         \E S \in {Resume(View(t), r)} : Commit(t, S)
    /\ UNCHANGED <<paper, dnRunning>>

DnInit ==
  /\ paper \in BOOLEAN
  /\ dnRunning = FALSE
  /\ dnPos = EmptyPosition(0)
  /\ dnLegs = (0 :> EmptyLegs)
  /\ dnHist = <<>>
  /\ dnStk = [t \in DnTasks |-> <<>>]
  /\ dnCalls = [t \in DnTasks |-> <<>>]
  /\ dnGen = 0
  /\ dnFails = 0

\* ================================================================== IC
\* IronCondorEngine.  Premiums are kept in tenths of a rupee, so that the
\* factor 0.6 of the cost estimate stays in the integers.  Each handler is one
\* action: the engine's awaits are gateway calls and timers only, and the
\* step runs the handler from its invocation to its return.

Indexes == <<"NIFTY", "SENSEX">>

IndexSet == {"NIFTY", "SENSEX"}

\* CFG[index]: lot, hedge width, strikeStep
CFG ==
  [NIFTY  |-> [lot |-> 65, hedge |-> 150, strikeStep |-> 50],
   SENSEX |-> [lot |-> 20, hedge |-> 500, strikeStep |-> 100]]

\* CFG.FIREFIGHT.LOSS_3X
LOSS_3X == 3

\* CFG.FIREFIGHT.PROFIT_70, in percent
PROFIT_70 == 70

\* CFG.FIREFIGHT.LOSS_4X
LOSS_4X == 4

\* CFG.FIREFIGHT.MAX_ROLLS
MAX_ROLLS == 2

\* roll requests recorded on the open positions
MaxRollReqs == 3

\* Math.round(a / b), b > 0
RoundDiv(a, b) == (2 * a + b) \div (2 * b)

Max(a, b) == IF a >= b THEN a ELSE b

\* spots the feed quotes at entry time (0: no last_price)
IcEntrySpots == [NIFTY |-> {0, 24000}, SENSEX |-> {0, 80000}]

\* spots the feed quotes to the monitor: missing, at entry, past 3x on the
\* call side (NIFTY), past 4x on the call side, past 4x on the put side (NIFTY)
IcMonitorSpots ==
  [NIFTY  |-> {0, 24000, 24250, 24400, 23600},
   SENSEX |-> {0, 80000, 81200}]

VARIABLES
  icRunning,  \* engine.running
  icPos,      \* engine.positions
  icHist,     \* engine.history
  icCalls,    \* gateway calls of the handler that ran last
  icLast,     \* the handler that ran last and its index
  icGen,      \* per index: positions entered so far
  icFails     \* failures injected so far

icVars == <<icRunning, icPos, icHist, icCalls, icLast, icGen, icFails>>

\* callSpread / putSpread holding null
NullSpread ==
  [status |-> "NONE", sellStrike |-> 0, buyStrike |-> 0, netCredit |-> 0,
   currentPremium |-> 0, slOrderId |-> 0, closeReason |-> "",
   exitSell |-> "none", exitBuy |-> "none"]

\* _emptyPos(index); gen: which entry of the index the object is (0: none)
EmptyPos ==
  [status |-> "IDLE", gen |-> 0, systemRolls |-> 0, discretionaryRolls |-> 0,
   spotAtEntry |-> 0, callSpread |-> NullSpread, putSpread |-> NullSpread,
   totalCredit |-> 0, pnl |-> 0]

SpreadField(side) == IF side = "call" THEN "callSpread" ELSE "putSpread"

OtherSide(side) == IF side = "call" THEN "put" ELSE "call"

\* the handler's view: engine state, the calls issued so far, and the set fs
\* of calls (by position in the run) that the gateway fails
IcView(fs) ==
  [pos |-> icPos, hist |-> icHist, gen |-> icGen, calls |-> <<>>, fs |-> fs]

\* one gateway call for a leg of index; ok is its outcome
IcGateway(S, kind, index, leg, side) ==
  [S EXCEPT !.calls = Append(@, [kind |-> kind, index |-> index, leg |-> leg,
                                 side |-> side,
                                 ok |-> (Len(S.calls) + 1) \notin S.fs])]

IcLastOk(S) == S.calls[Len(S.calls)].ok

\* _calcPnl(pos), from tenths
IcCalcPnl(pos, index) ==
  LET part(sp) == IF sp.status = "ACTIVE"
                  THEN (sp.netCredit - (IF sp.currentPremium # 0 THEN sp.currentPremium
                                        ELSE sp.netCredit)) * CFG[index].lot
                  ELSE 0
  IN  RoundDiv(part(pos.callSpread) + part(pos.putSpread), 10)

\* closePosition(index, reason, pnl); pnl is << >> for undefined and << v >>
\* for the number v.  The
\* ledger entry keeps, of the archived copy, what the properties read.
IcClosePosition(S, index, reason, pnl) ==
  LET pos == S.pos[index] IN
  IF pos.status = "IDLE" THEN S
  ELSE [S EXCEPT
          !.hist = Append(@, [index |-> index, gen |-> pos.gen, closeReason |-> reason,
                              pnl |-> IF pnl = << >> THEN pos.pnl ELSE pnl[1],
                              callSpread |-> pos.callSpread.status,
                              putSpread |-> pos.putSpread.status]),
          !.pos[index] = EmptyPos]

\* _exitSpread(): the live orders - cancel of the SL order, buy back of the
\* SELL leg, sale of the BUY hedge
IcExitOrders(S, index, side) ==
  LET f  == SpreadField(side)
      S1 == IF S.pos[index][f].slOrderId = 0 THEN S
            ELSE LET C == IcGateway(S, "cancel", index, side \o "Sell", "SELL")
                 IN  IF IcLastOk(C) THEN [C EXCEPT !.pos[index][f].slOrderId = 0] ELSE C
      S2 == IcGateway(S1, "exit", index, side \o "Sell", "SELL")
      S3 == [S2 EXCEPT !.pos[index][f].exitSell = IF IcLastOk(S2) THEN "ok" ELSE "failed"]
      S4 == IcGateway(S3, "exit", index, side \o "Buy", "BUY")
  IN  [S4 EXCEPT !.pos[index][f].exitBuy = IF IcLastOk(S4) THEN "ok" ELSE "failed"]

\* _exitSpread(index, side, reason) giving up, with the spread left ACTIVE,
\* when the buy back of the SELL leg was rejected
IcExitSpreadAbortOnFail(S, index, side, reason) ==
  LET f == SpreadField(side) IN
  IF S.pos[index][f].status # "ACTIVE" THEN S
  ELSE
    LET S1 == IF paper THEN S ELSE IcExitOrders(S, index, side) IN
    IF S1.pos[index][f].exitSell = "failed" THEN S1
    ELSE
      LET S2 == [S1 EXCEPT !.pos[index][f].status = "EXITED",
                           !.pos[index][f].closeReason = reason]
          pos == S2.pos[index]
      IN  IF pos.callSpread.status = "EXITED" /\ pos.putSpread.status = "EXITED"
          THEN IcClosePosition(S2, index, "Both Spreads Exited", << IcCalcPnl(pos, index) >>)
          ELSE [S2 EXCEPT !.pos[index].pnl = IcCalcPnl(pos, index)]

\* _exitSpread(index, side, reason)
IcExitSpread(S, index, side, reason) ==
  LET f == SpreadField(side) IN
  IF S.pos[index][f].status # "ACTIVE" THEN S
  ELSE
    LET S1 == IF paper THEN S ELSE IcExitOrders(S, index, side)
        S2 == [S1 EXCEPT !.pos[index][f].status = "EXITED",
                         !.pos[index][f].closeReason = reason]
        pos == S2.pos[index]
    IN  IF pos.callSpread.status = "EXITED" /\ pos.putSpread.status = "EXITED"
        THEN IcClosePosition(S2, index, "Both Spreads Exited", << IcCalcPnl(pos, index) >>)
        ELSE [S2 EXCEPT !.pos[index].pnl = IcCalcPnl(pos, index)]

\* executeShift(index, side): netCredit *= 1.1
IcExecuteShift(S, index, side) ==
  IF S.pos[index].status = "IDLE" THEN S
  ELSE [S EXCEPT !.pos[index].systemRolls = @ + 1,
                 !.pos[index][SpreadField(side)].netCredit = (@ * 11) \div 10]

\* recordRoll(index, type, side)
IcRecordRoll(S, index, type, side) ==
  IF S.pos[index].status = "IDLE" THEN S
  ELSE IF type = "system" THEN [S EXCEPT !.pos[index].systemRolls = @ + 1]
  ELSE IF type = "discretionary" THEN [S EXCEPT !.pos[index].discretionaryRolls = @ + 1]
  ELSE S

\* monitorFirefight(): the block of one side.  booked is the other side's
\* netCredit * profitBooked.
IcFirefightSide(S, index, side, spot) ==
  LET pos == S.pos[index]
      sp  == pos[SpreadField(side)]
      ot  == pos[SpreadField(OtherSide(side))]
  IN  IF sp.status # "ACTIVE" THEN S
      ELSE
        LET intrusion   == IF side = "call" THEN Max(0, spot - sp.sellStrike)
                           ELSE Max(0, sp.sellStrike - spot)
            currentCost == sp.netCredit + intrusion * 6
            booked      == IF ot.status = "ACTIVE"
                           THEN Max(0, ot.netCredit -
                                       (IF ot.currentPremium # 0 THEN ot.currentPremium
                                        ELSE ot.netCredit))
                           ELSE 0
            effectiveSL == sp.netCredit * LOSS_4X - booked
            S1 == [S EXCEPT !.pos[index][SpreadField(side)].currentPremium = currentCost]
        IN  IF currentCost >= effectiveSL
            THEN IcExitSpread(S1, index, side,
                              IF side = "call" THEN "Call Spread 4x SL" ELSE "Put Spread 4x SL")
            ELSE IF currentCost >= LOSS_3X * sp.netCredit
                    /\ booked * 100 >= PROFIT_70 * ot.netCredit
                    /\ ot.status = "ACTIVE"
            THEN IF pos.systemRolls + pos.discretionaryRolls < MAX_ROLLS
                 THEN IcExecuteShift(S1, index, side)
                 ELSE S1
            ELSE S1

\* monitorFirefight(): one turn of the loop over the indexes.  Once
\* _exitSpread has archived the position, the rest of the turn works on the
\* object that left engine.positions.
IcMonitorOne(S, index, spot) ==
  IF S.pos[index].status # "ACTIVE" THEN S
  ELSE LET S1 == IcGateway(S, "ltp", index, "", "") IN
       IF ~IcLastOk(S1) \/ spot = 0 THEN S1
       ELSE LET S2 == IcFirefightSide(S1, index, "call", spot)
                S3 == IcFirefightSide(S2, index, "put", spot)
            IN  IF S3.pos[index].status # "ACTIVE" THEN S3
                ELSE [S3 EXCEPT !.pos[index].pnl = IcCalcPnl(S3.pos[index], index)]

\* monitorFirefight()
IcMonitorFirefight(S, spots) ==
  IcMonitorOne(IcMonitorOne(S, "NIFTY", spots["NIFTY"]), "SENSEX", spots["SENSEX"])

\* _expiryExit(index)
IcExpiryExit(S, index) ==
  IF S.pos[index].status # "ACTIVE" THEN S
  ELSE IcExitSpread(IcExitSpread(S, index, "call", "Expiry Exit"),
                    index, "put", "Expiry Exit")

\* checkEntry(): the position object stored after the orders
IcNewPosition(index, spot, gen) ==
  LET cfg          == CFG[index]
      callSell     == RoundDiv(spot * 1005, 1000 * cfg.strikeStep) * cfg.strikeStep
      putSell      == RoundDiv(spot * 995, 1000 * cfg.strikeStep) * cfg.strikeStep
      callSellPrem == spot \div 40
      callBuyPrem  == (callSellPrem * 3) \div 10
      netCredit    == callSellPrem - callBuyPrem
      spread(sell, buy) ==
        [NullSpread EXCEPT !.status = "ACTIVE", !.sellStrike = sell, !.buyStrike = buy,
                           !.netCredit = netCredit, !.currentPremium = netCredit]
  IN  [EmptyPos EXCEPT !.status = "ACTIVE", !.gen = gen, !.spotAtEntry = spot,
                       !.callSpread = spread(callSell, callSell + cfg.hedge),
                       !.putSpread = spread(putSell, putSell - cfg.hedge),
                       !.totalCredit = RoundDiv((netCredit + netCredit) * cfg.lot, 10)]

\* checkEntry(): the live entry orders, in the order of the code; the first
\* one that fails throws
RECURSIVE IcPlaceEntry(_, _, _)
IcPlaceEntry(S, index, legs) ==
  IF legs = <<>> THEN S
  ELSE LET S1 == IcGateway(S, "entry", index, Head(legs)[1], Head(legs)[2])
       IN  IF IcLastOk(S1) THEN IcPlaceEntry(S1, index, Tail(legs)) ELSE S1

IcEntryLegs ==
  << <<"callBuy", "BUY">>, <<"putBuy", "BUY">>, <<"callSell", "SELL">>, <<"putSell", "SELL">> >>

\* checkEntry(index) without its IDLE test
IcCheckEntryUnguarded(S, index, spot) ==
  LET S1 == IcGateway(S, "ltp", index, "", "") IN
  IF ~IcLastOk(S1) \/ spot = 0 THEN S1
  ELSE LET S2 == IF paper THEN S1 ELSE IcPlaceEntry(S1, index, IcEntryLegs) IN
       IF ~IcLastOk(S2) THEN S2
       ELSE [S2 EXCEPT !.pos[index] = IcNewPosition(index, spot, S2.gen[index] + 1),
                       !.gen[index] = @ + 1]

\* checkEntry(index)
IcCheckEntry(S, index, spot) ==
  IF S.pos[index].status # "IDLE" THEN S
  ELSE LET S1 == IcGateway(S, "ltp", index, "", "") IN
       IF ~IcLastOk(S1) \/ spot = 0 THEN S1
       ELSE LET S2 == IF paper THEN S1 ELSE IcPlaceEntry(S1, index, IcEntryLegs) IN
            IF ~IcLastOk(S2) THEN S2
            ELSE [S2 EXCEPT !.pos[index] = IcNewPosition(index, spot, S2.gen[index] + 1),
                            !.gen[index] = @ + 1]

\* the failures that may be injected into a run that issues n calls
IcFailSets(n) ==
  LET left == MaxFails - icFails
  IN  IF left <= 0 THEN {{}}
      ELSE IF left = 1 THEN {{}} \cup {{i} : i \in 1..n}
      ELSE {fs \in SUBSET (1..n) : Cardinality(fs) <= left}

\* the engine after handler op ran to view S
IcCommit(op, index, S) ==
  /\ icPos' = S.pos
  /\ icHist' = S.hist
  /\ icGen' = S.gen
  /\ icCalls' = S.calls
  /\ icLast' = [op |-> op, index |-> index]
  /\ icFails' = icFails + Cardinality({n \in 1..Len(S.calls) : ~S.calls[n].ok})
  /\ UNCHANGED <<paper, icRunning>>

\* POST /api/iron-condor/start and /stop
IcStartStop ==
  /\ icRunning' = ~icRunning
  /\ icLast' = [op |-> "startStop", index |-> ""]
  /\ UNCHANGED <<paper, icPos, icHist, icCalls, icGen, icFails>>

\* cron '30 9 * * 1' / '30 9 * * 3': if (this.running) checkEntry(index)
IcCheckEntryTick ==
  \E index \in IndexSet :
    /\ icRunning
    /\ icPos[index].status = "IDLE" => icGen[index] < MaxPos
    /\ \E spot \in IcEntrySpots[index] :
         \E F0 \in {IcCheckEntry(IcView({}), index, spot)} :
           \E fs \in IcFailSets(Len(F0.calls)) :
             \E S \in {IF fs = {} THEN F0
                       ELSE IcCheckEntry(IcView(fs), index, spot)} :
               IcCommit("checkEntry", index, S)

\* cron '* 9-15 * * 1-5': if (this.running) monitorFirefight()
IcMonitorTick ==
  /\ icRunning
  /\ \E spots \in [IndexSet -> UNION {IcMonitorSpots[i] : i \in IndexSet}] :
       /\ \A i \in IndexSet :
            spots[i] \in (IF icPos[i].status = "ACTIVE" THEN IcMonitorSpots[i]
                          ELSE {0})
       /\ \E F0 \in {IcMonitorFirefight(IcView({}), spots)} :
            \E fs \in IcFailSets(Len(F0.calls)) :
              \E S \in {IF fs = {} THEN F0
                        ELSE IcMonitorFirefight(IcView(fs), spots)} :
                IcCommit("monitorFirefight", "", S)

\* cron '20 15 * * 3' / '20 15 * * 4': if (this.running) _expiryExit(index)
IcExpiryTick ==
  \E index \in IndexSet :
    /\ icRunning
    /\ \E F0 \in {IcExpiryExit(IcView({}), index)} :
         \E fs \in IcFailSets(Len(F0.calls)) :
           \E S \in {IF fs = {} THEN F0
                     ELSE IcExpiryExit(IcView(fs), index)} :
             IcCommit("_expiryExit", index, S)

\* rolls recorded on the open positions
IcRollsRecorded ==
  icPos["NIFTY"].systemRolls + icPos["NIFTY"].discretionaryRolls
    + icPos["SENSEX"].systemRolls + icPos["SENSEX"].discretionaryRolls

\* POST /api/iron-condor/roll
IcRollCall ==
  \E index \in IndexSet, type \in {"system", "discretionary"}, side \in {"CALL", "PUT"} :
    /\ IcRollsRecorded < MaxRollReqs
    /\ IcCommit("recordRoll", index, IcRecordRoll(IcView({}), index, type, side))

\* POST /api/iron-condor/close
IcCloseCall ==
  \E index \in IndexSet, pnl \in {<< >>, << 0 >>} :
    IcCommit("closePosition", index, IcClosePosition(IcView({}), index, "MANUAL", pnl))

IcInit ==
  /\ icRunning = FALSE
  /\ icPos = [i \in IndexSet |-> EmptyPos]
  /\ icHist = <<>>
  /\ icCalls = <<>>
  /\ icLast = [op |-> "", index |-> ""]
  /\ icGen = [i \in IndexSet |-> 0]
  /\ icFails = 0

\* ================================================================= DN2
\* DeltaNeutralEngine of services/deltaNeutralEngine.js on top of
\* DeltaNeutralStrategy: entry, the monitor, and the two exit routes.  Each
\* handler is one action, run from its invocation to its return.

\* CONFIG.LOT_SIZE
LOT_SIZE == 20

\* what checkEntry's feeds deliver: all of it, or nothing from one of them on
Dn2Feeds == {"ok", "noSpot", "noExpiry", "noChain", "noStrikes", "noPremiums"}

\* leg premiums getLegPremiums returns (0: last_price missing)
Dn2Premiums == { Quote(120, 80, 120, 80), Quote(100, 60, 110, 70), Quote(0, 0, 0, 0) }

\* legKeys bodies the /exit-legs route is called with
Dn2ExitLegsInputs ==
  { << "callSell" >>, << "callBuy", "callSell" >>, << "putBuy", "putSell" >>,
    << "callSell", "putSell" >> }

\* the premiums the monitor is quoted: missing, at entry, call buy at its
\* stop, both buys at their stops, call sell at its stop, call buy and call
\* sell at their stops, put sell at its stop with put buy up 1000, put buy
\* down 1000, put buy up 2000
Dn2Markets ==
  { Quote(0, 0, 0, 0),        Quote(120, 80, 120, 80),
    Quote(40, 80, 200, 80),   Quote(40, 80, 40, 80),
    Quote(130, 130, 120, 80), Quote(40, 130, 210, 80),
    Quote(120, 80, 170, 130), Quote(120, 80, 70, 80),
    Quote(120, 80, 220, 80) }

\* CONFIG.TRAIL_LEVELS
Dn2TrailLevels ==
  [i \in 1..10 |-> [profit |-> 1000 * i, lock |-> 250 + 750 * (i - 1)]]

VARIABLES
  dn2Running,  \* engine.running
  dn2Pos,      \* strategy.position
  dn2Hist,     \* strategy.tradeHistory
  dn2Calls,    \* orders placed by the handler that ran last
  dn2Last,     \* the premiums and actions of the monitor run, if the
               \* handler that ran last is the monitor
  dn2Gen,      \* positions opened so far
  dn2Fails     \* failures injected so far

dn2Vars == <<dn2Running, dn2Pos, dn2Hist, dn2Calls, dn2Last, dn2Gen, dn2Fails>>

\* a slot of position.legs that holds null.  Of a leg, the fields the
\* handlers read are kept; currentPremium and pnl are written only.
Dn2NullLeg == [status |-> "NONE", entryPremium |-> 0, closeReason |-> ""]

\* emptyPosition(); gen: which opened position the object is (0: none).
\* trailSL is kept times LOT_SIZE, 0 for null.
Dn2EmptyPosition ==
  [status |-> "IDLE", gen |-> 0, netDebit |-> 0, combinedSL |-> 0,
   legs |-> [k \in KeySet |-> Dn2NullLeg], activeLegs |-> <<>>,
   lastBuyLeg |-> "", trailLevel |-> 0, lockedProfit |-> 0, trailSL |-> 0,
   pnl |-> 0, closeReason |-> ""]

\* no monitor run to report
Dn2NoLast == [op |-> "", q |-> Quote(0, 0, 0, 0), actions |-> << >>]

\* the handler's view: strategy state, the orders placed so far, and the set
\* fs of orders (by position in the run) that the gateway rejects
Dn2View(fs) ==
  [pos |-> dn2Pos, hist |-> dn2Hist, gen |-> dn2Gen, calls |-> <<>>, fs |-> fs,
   last |-> Dn2NoLast]

\* kiteService.placeOrder for leg key; side is the side of the leg
Dn2Order(S, kind, key, side) ==
  [S EXCEPT !.calls = Append(@, [kind |-> kind, key |-> key, side |-> side,
                                 ok |-> (Len(S.calls) + 1) \notin S.fs])]

Dn2LastOk(S) == S.calls = <<>> \/ S.calls[Len(S.calls)].ok

Dn2SideOf(key) == IF key \in {"callBuy", "putBuy"} THEN "BUY" ELSE "SELL"

Dn2Sells(keys) == SelectSeq(keys, LAMBDA l : l = "callSell" \/ l = "putSell")

Dn2Buys(keys) == SelectSeq(keys, LAMBDA l : l = "callBuy" \/ l = "putBuy")

\* strategy.openPosition(spotPrice, legs, expiryDate)
Dn2OpenPosition(S, prem) ==
  [S EXCEPT
     !.pos = [Dn2EmptyPosition EXCEPT
                !.status = "ACTIVE", !.gen = S.gen + 1,
                !.netDebit = (prem["callBuy"] + prem["putBuy"]) * LOT_SIZE
                               - (prem["callSell"] + prem["putSell"]) * LOT_SIZE,
                !.combinedSL = (((prem["callBuy"] + prem["putBuy"]) * LOT_SIZE
                                  - (prem["callSell"] + prem["putSell"]) * LOT_SIZE) * 60)
                                 \div 100,
                !.legs = [k \in KeySet |->
                            [Dn2NullLeg EXCEPT !.status = "ACTIVE",
                                               !.entryPremium = prem[k]]],
                !.activeLegs = LegKeys],
     !.gen = @ + 1]

\* openLiveTrade(): the orders, in the order of the code; the first one that
\* is rejected throws
RECURSIVE Dn2PlaceEntry(_, _)
Dn2PlaceEntry(S, keys) ==
  IF keys = <<>> THEN S
  ELSE LET S1 == Dn2Order(S, "entry", Head(keys), Dn2SideOf(Head(keys)))
       IN  IF Dn2LastOk(S1) THEN Dn2PlaceEntry(S1, Tail(keys)) ELSE S1

\* openLiveTrade(spotPrice, legs, expiry)
Dn2OpenLiveTrade(S, prem) ==
  LET S1 == Dn2PlaceEntry(S, << "callSell", "putSell", "callBuy", "putBuy" >>)
  IN  IF Dn2LastOk(S1) THEN Dn2OpenPosition(S1, prem) ELSE S1

\* checkEntry()
Dn2CheckEntry(S, feed, prem) ==
  IF S.pos.status # "IDLE" THEN S
  ELSE IF feed # "ok" THEN S
  ELSE IF paper THEN Dn2OpenPosition(S, prem)
  ELSE Dn2OpenLiveTrade(S, prem)

\* the exit orders of exitLegs / exitAll: one per key; a key whose leg is
\* null throws before the order is placed
RECURSIVE Dn2PlaceExits(_, _)
Dn2PlaceExits(S, keys) ==
  IF keys = <<>> THEN S
  ELSE Dn2PlaceExits(IF S.pos.legs[Head(keys)].status = "NONE" THEN S
                     ELSE Dn2Order(S, "exit", Head(keys), Dn2SideOf(Head(keys))),
                     Tail(keys))

\* strategy.closeLegs(legKeys, reason)
Dn2CloseLegs(S, keys, reason) ==
  LET ks     == {keys[n] : n \in 1..Len(keys)}
      legs   == [k \in KeySet |->
                   IF k \in ks /\ S.pos.legs[k].status # "NONE"
                   THEN [S.pos.legs[k] EXCEPT !.status = "CLOSED", !.closeReason = reason]
                   ELSE S.pos.legs[k]]
      active == SelectSeq(S.pos.activeLegs, LAMBDA l : l \notin ks)
      S1     == [S EXCEPT !.pos.legs = legs, !.pos.activeLegs = active]
  IN  IF Len(Dn2Buys(active)) = 1 /\ Dn2Sells(active) = <<>>
      THEN [S1 EXCEPT !.pos.lastBuyLeg = Dn2Buys(active)[1], !.pos.status = "PARTIAL"]
      ELSE S1

\* exitLegs(legKeys, reason)
Dn2ExitLegs(S, keys, reason) ==
  Dn2CloseLegs(IF paper THEN S ELSE Dn2PlaceExits(S, Dn2Sells(keys) \o Dn2Buys(keys)),
               keys, reason)

\* strategy.closeAll(reason).  The ledger entry keeps, of the archived copy,
\* what the properties read; was is the status the position had.
Dn2CloseAll(S, reason) ==
  [S EXCEPT !.hist = Append(@, [gen |-> S.pos.gen, status |-> "CLOSED",
                                closeReason |-> reason, pnl |-> S.pos.pnl,
                                was |-> S.pos.status]),
            !.pos = Dn2EmptyPosition]

\* exitAll(reason)
Dn2ExitAll(S, reason) ==
  Dn2CloseAll(IF paper THEN S
              ELSE Dn2PlaceExits(S, Dn2Sells(S.pos.activeLegs) \o Dn2Buys(S.pos.activeLegs)),
              reason)

\* the level of the present profit, without regard to the level reached
Dn2NextLevelsAny(trailLevel, legPnl) ==
  {i \in 1..Len(Dn2TrailLevels) :
     /\ legPnl >= Dn2TrailLevels[i].profit
     /\ \A j \in 1..Len(Dn2TrailLevels) : legPnl >= Dn2TrailLevels[j].profit => j <= i}

\* monitorPosition: the levels TRAIL_LEVELS.find() may return, as 1-based
\* indexes; find() returns the first of them
Dn2NextLevels(trailLevel, legPnl) ==
  {i \in 1..Len(Dn2TrailLevels) :
     i - 1 >= trailLevel /\ legPnl >= Dn2TrailLevels[i].profit}

\* strategy.monitorPosition(currentPremiums): the position it leaves and the
\* actions it returns
Dn2MonitorPosition(pos, cp) ==
  LET quoted(k) == /\ \E n \in 1..Len(pos.activeLegs) : pos.activeLegs[n] = k
                   /\ cp[k] # 0 /\ pos.legs[k].status = "ACTIVE"
      legPnl(k) == IF Dn2SideOf(k) = "BUY"
                   THEN (cp[k] - pos.legs[k].entryPremium) * LOT_SIZE
                   ELSE (pos.legs[k].entryPremium - cp[k]) * LOT_SIZE
      pnls == [k \in KeySet |-> [pnl |-> IF quoted(k) THEN legPnl(k) ELSE 0]]
      totalPnl == SumPnl(pnls, pos.activeLegs)
      p1 == [pos EXCEPT !.pnl = totalPnl]
      exitLegs(keys, reason) == [type |-> "EXIT_LEGS", legs |-> keys, reason |-> reason]
      buySL(k)  == p1.legs[k].status = "ACTIVE" /\ cp[k] # 0
                     /\ cp[k] * 100 <= p1.legs[k].entryPremium * 40
      sellSL(k) == p1.legs[k].status = "ACTIVE" /\ cp[k] # 0
                     /\ cp[k] * 100 >= p1.legs[k].entryPremium * 160
      legActions ==
        IF Len(p1.activeLegs) > 1 /\ p1.lastBuyLeg = ""
        THEN (IF buySL("callBuy")
              THEN << exitLegs(<< "callBuy", "callSell" >>, "CALL_BUY_SL") >> ELSE << >>)
             \o (IF buySL("putBuy")
                 THEN << exitLegs(<< "putBuy", "putSell" >>, "PUT_BUY_SL") >> ELSE << >>)
             \o (IF sellSL("callSell")
                 THEN << exitLegs(<< "callSell" >>, "CALL_SELL_SL") >> ELSE << >>)
             \o (IF sellSL("putSell")
                 THEN << exitLegs(<< "putSell" >>, "PUT_SELL_SL") >> ELSE << >>)
        ELSE << >>
      lb == p1.lastBuyLeg
  IN  IF totalPnl <= -p1.combinedSL /\ Len(p1.activeLegs) > 1
      THEN [pos |-> p1,
            actions |-> << [type |-> "EXIT_ALL", legs |-> << >>, reason |-> "COMBINED_SL"] >>]
      ELSE IF lb # "" /\ cp[lb] # 0 /\ p1.legs[lb].status = "ACTIVE"
      THEN LET lastPnl == (cp[lb] - p1.legs[lb].entryPremium) * LOT_SIZE
               p2   == [p1 EXCEPT !.pnl = lastPnl]
               next == Dn2NextLevels(p2.trailLevel, lastPnl)
               lvl  == CHOOSE i \in next : \A j \in next : i <= j
               p3   == IF next = {} THEN p2
                       ELSE [p2 EXCEPT !.trailLevel = lvl,
                                       !.lockedProfit = Dn2TrailLevels[lvl].lock,
                                       !.trailSL = p2.legs[lb].entryPremium * LOT_SIZE
                                                     + Dn2TrailLevels[lvl].lock]
           IN  [pos |-> p3,
                actions |-> legActions \o
                  (IF p3.trailSL # 0 /\ cp[lb] * LOT_SIZE <= p3.trailSL
                   THEN << exitLegs(<< lb >>, "TRAIL_SL_HIT") >> ELSE << >>)]
      ELSE [pos |-> p1, actions |-> legActions]

\* monitorPosition(): the loop over result.actions
RECURSIVE Dn2RunActions(_, _)
Dn2RunActions(S, actions) ==
  IF actions = << >> THEN S
  ELSE Dn2RunActions(IF Head(actions).type = "EXIT_ALL"
                     THEN Dn2ExitAll(S, Head(actions).reason)
                     ELSE Dn2ExitLegs(S, Head(actions).legs, Head(actions).reason),
                     Tail(actions))

\* monitorPosition(); q: what getLTP quotes (0: last_price missing).  The
\* premiums passed on are those of the active legs.
Dn2Monitor(S, q) ==
  IF S.pos.status \in {"IDLE", "CLOSED"} THEN S
  ELSE
    LET cp == [k \in KeySet |->
                 IF \E n \in 1..Len(S.pos.activeLegs) : S.pos.activeLegs[n] = k
                 THEN q[k] ELSE 0]
        R  == CHOOSE T \in {Dn2MonitorPosition(S.pos, cp)} : TRUE
        S1 == [S EXCEPT !.pos = R.pos,
                        !.last = [op |-> "monitorPosition", q |-> cp,
                                  actions |-> R.actions]]
    IN  Dn2RunActions(S1, R.actions)

\* the rejections that may be injected into a run that places n orders
Dn2FailSets(n) ==
  LET left == MaxFails - dn2Fails
  IN  IF left <= 0 THEN {{}}
      ELSE IF left = 1 THEN {{}} \cup {{i} : i \in 1..n}
      ELSE {fs \in SUBSET (1..n) : Cardinality(fs) <= left}

\* the engine after a handler ran to view S
Dn2Commit(S) ==
  /\ dn2Pos' = S.pos
  /\ dn2Hist' = S.hist
  /\ dn2Gen' = S.gen
  /\ dn2Calls' = S.calls
  /\ dn2Last' = S.last
  /\ dn2Fails' = dn2Fails + Cardinality({n \in 1..Len(S.calls) : ~S.calls[n].ok})
  /\ UNCHANGED <<paper, dn2Running>>

\* POST /api/delta-neutral/start and /stop
Dn2StartStop ==
  /\ dn2Running' = ~dn2Running
  /\ dn2Last' = Dn2NoLast
  /\ UNCHANGED <<paper, dn2Pos, dn2Hist, dn2Calls, dn2Gen, dn2Fails>>

\* cron '20 15 * * 5': if (!this.running) return; checkEntry()
Dn2CheckEntryTick ==
  /\ dn2Running
  /\ dn2Pos.status = "IDLE" => dn2Gen < MaxPos
  /\ \E feed \in Dn2Feeds, prem \in Dn2Premiums :
       \E F0 \in {Dn2CheckEntry(Dn2View({}), feed, prem)} :
         \E fs \in Dn2FailSets(Len(F0.calls)) :
           \E S \in {IF fs = {} THEN F0
                     ELSE Dn2CheckEntry(Dn2View(fs), feed, prem)} :
             Dn2Commit(S)

\* cron '*/5 9-15 * * 1-4': if (!this.running) return; monitorPosition()
Dn2MonitorTick ==
  /\ dn2Running
  /\ \E q \in Dn2Markets :
       \E F0 \in {Dn2Monitor(Dn2View({}), q)} :
         \E fs \in Dn2FailSets(Len(F0.calls)) :
           \E S \in {IF fs = {} THEN F0
                     ELSE Dn2Monitor(Dn2View(fs), q)} :
             Dn2Commit(S)

\* POST /api/delta-neutral/exit-all
Dn2ExitAllCall ==
  /\ Len(dn2Hist) < MaxHist
  /\ \E F0 \in {Dn2ExitAll(Dn2View({}), "MANUAL_EXIT")} :
       \E fs \in Dn2FailSets(Len(F0.calls)) :
         \E S \in {IF fs = {} THEN F0
                   ELSE Dn2ExitAll(Dn2View(fs), "MANUAL_EXIT")} :
           Dn2Commit(S)

\* POST /api/delta-neutral/exit-legs
Dn2ExitLegsCall ==
  \E keys \in Dn2ExitLegsInputs :
    \E F0 \in {Dn2ExitLegs(Dn2View({}), keys, "MANUAL_EXIT")} :
      \E fs \in Dn2FailSets(Len(F0.calls)) :
        \E S \in {IF fs = {} THEN F0
                  ELSE Dn2ExitLegs(Dn2View(fs), keys, "MANUAL_EXIT")} :
          Dn2Commit(S)

Dn2Init ==
  /\ dn2Running = FALSE
  /\ dn2Pos = Dn2EmptyPosition
  /\ dn2Hist = <<>>
  /\ dn2Calls = <<>>
  /\ dn2Last = Dn2NoLast
  /\ dn2Gen = 0
  /\ dn2Fails = 0

\* ================================================================== BT
\* The iron condor backtest (runBacktest of src/server/src/index.js) over the
\* SENSEX candles: one action per candle of the loop.  Amounts are in 1/4000
\* of a rupee, which holds the entry credit and both rolled credits exactly;
\* the decay branch drops what is below that unit.

\* CONFIG.SENSEX.lot
BtLot == 20

\* CONFIG.FIREFIGHT.LOSS_3X
BtLoss3x == 3

\* CONFIG.FIREFIGHT.PROFIT_70, in percent
BtProfit70 == 70

\* CONFIG.FIREFIGHT.LOSS_4X
BtLoss4x == 4

\* CONFIG.FIREFIGHT.MAX_ROLLS
BtMaxRolls == 2

\* trades the ledger holds at most
MaxBtTrades == 2

\* closes of the other candles: at entry, between the short strikes, past
\* the call short strike (below the roll band, inside it, beyond the exit
\* threshold), the same past a once and a twice rolled call short strike, and
\* the put side
BtSpots == {80000, 80300, 80450, 80485, 80490, 80700, 80745, 80900, 81020,
            79700, 79515, 79510, 79300}

\* the candles of the replay: entry time (close 80000), expiry time (at or
\* after it on the expiry day), any other time
BtCandles ==
  ({"entry"} \X {80000}) \cup ({"mid", "expiry"} \X BtSpots)

VARIABLES
  btPos,     \* pos / inPos of the loop
  btTrades,  \* allTrades
  btLast     \* what the candle handled last did

btVars == <<btPos, btTrades, btLast>>

\* pos = null, inPos = false
BtNoPos ==
  [inPos |-> FALSE, entrySpot |-> 0, callShortStrike |-> 0, putShortStrike |-> 0,
   callNetCredit |-> 0, putNetCredit |-> 0, callStatus |-> "NONE", putStatus |-> "NONE",
   callExitCost |-> << >>, putExitCost |-> << >>, rolls |-> 0, slHit |-> FALSE]

\* openPosition(spot, cfg, entryDate); netCreditPerSide = (1000 / 20) / 2
BtOpenPosition(spot) ==
  [BtNoPos EXCEPT !.inPos = TRUE, !.entrySpot = spot,
                  !.callShortStrike = RoundDiv(spot * 1005, 1000),
                  !.putShortStrike = RoundDiv(spot * 995, 1000),
                  !.callNetCredit = (4000 * 1000) \div (BtLot * 2),
                  !.putNetCredit = (4000 * 1000) \div (BtLot * 2),
                  !.callStatus = "ACTIVE", !.putStatus = "ACTIVE"]

\* credit * (1 - decay * 0.9), decay = min(1, dist / span)
BtDecayed(credit, dist, span) ==
  IF dist >= span THEN credit \div 10
  ELSE credit - (credit * 9 * dist) \div (10 * span)

\* calcCallSpreadCost(spot, pos)
BtCallSpreadCost(spot, pos) ==
  IF spot <= pos.callShortStrike
  THEN BtDecayed(pos.callNetCredit, pos.callShortStrike - spot,
                 pos.callShortStrike - pos.entrySpot + 1)
  ELSE pos.callNetCredit + (spot - pos.callShortStrike) * 2400

\* calcPutSpreadCost(spot, pos)
BtPutSpreadCost(spot, pos) ==
  IF spot >= pos.putShortStrike
  THEN BtDecayed(pos.putNetCredit, spot - pos.putShortStrike,
                 pos.entrySpot - pos.putShortStrike + 1)
  ELSE pos.putNetCredit + (pos.putShortStrike - spot) * 2400

\* positionPnl(pos, cfg), in rupees
BtPositionPnl(pos) ==
  LET debit(c) == IF c = << >> THEN 0 ELSE c[1]
  IN  RoundDiv((pos.callNetCredit - debit(pos.callExitCost)
                  + pos.putNetCredit - debit(pos.putExitCost)) * BtLot, 4000)

\* runBacktest: the 4x exit block.  netCredit * profitPct of the other side
\* is its netCredit less its cost.
BtExit4x(pos, callCost, putCost) ==
  LET callSL == pos.callNetCredit * BtLoss4x -
                  (IF pos.putStatus = "ACTIVE" THEN pos.putNetCredit - putCost ELSE 0)
      p1 == IF pos.callStatus = "ACTIVE" /\ callCost >= callSL
            THEN [pos EXCEPT !.callExitCost = << callCost >>, !.callStatus = "EXITED",
                             !.slHit = TRUE]
            ELSE pos
      putSL == p1.putNetCredit * BtLoss4x -
                 (IF p1.callStatus = "ACTIVE" THEN p1.callNetCredit - callCost ELSE 0)
  IN  IF p1.putStatus = "ACTIVE" /\ putCost >= putSL
      THEN [p1 EXCEPT !.putExitCost = << putCost >>, !.putStatus = "EXITED",
                      !.slHit = TRUE]
      ELSE p1

\* the 3x roll block without the test of pos.rolls
BtRoll3xUnbudgeted(pos, spot, callCost, putCost) ==
  LET callRoll == /\ pos.callStatus = "ACTIVE"
                  /\ callCost >= BtLoss3x * pos.callNetCredit
                  /\ pos.putStatus = "ACTIVE"
                  /\ (pos.putNetCredit - putCost) * 100 >= BtProfit70 * pos.putNetCredit
      p1 == IF callRoll
            THEN [pos EXCEPT !.callShortStrike = RoundDiv(spot * 1002, 1000),
                             !.callNetCredit = (@ * 115) \div 100,
                             !.rolls = @ + 1]
            ELSE pos
      putRoll == /\ p1.putStatus = "ACTIVE"
                 /\ putCost >= BtLoss3x * pos.putNetCredit
                 /\ p1.callStatus = "ACTIVE"
                 /\ (pos.callNetCredit - callCost) * 100 >= BtProfit70 * pos.callNetCredit
  IN  IF putRoll
      THEN [p1 EXCEPT !.putShortStrike = RoundDiv(spot * 998, 1000),
                      !.putNetCredit = (@ * 115) \div 100,
                      !.rolls = @ + 1]
      ELSE p1

\* runBacktest: the 3x roll block; expansion and profitPct are those of the
\* credits the block started with
BtRoll3x(pos, spot, callCost, putCost) ==
  IF pos.rolls >= BtMaxRolls THEN pos
  ELSE
    LET callRoll == /\ pos.callStatus = "ACTIVE"
                    /\ callCost >= BtLoss3x * pos.callNetCredit
                    /\ pos.putStatus = "ACTIVE"
                    /\ (pos.putNetCredit - putCost) * 100 >= BtProfit70 * pos.putNetCredit
        p1 == IF callRoll
              THEN [pos EXCEPT !.callShortStrike = RoundDiv(spot * 1002, 1000),
                               !.callNetCredit = (@ * 115) \div 100,
                               !.rolls = @ + 1]
              ELSE pos
        putRoll == /\ p1.putStatus = "ACTIVE"
                   /\ putCost >= BtLoss3x * pos.putNetCredit
                   /\ p1.callStatus = "ACTIVE"
                   /\ (pos.callNetCredit - callCost) * 100 >= BtProfit70 * pos.callNetCredit
    IN  IF putRoll
        THEN [p1 EXCEPT !.putShortStrike = RoundDiv(spot * 998, 1000),
                        !.putNetCredit = (@ * 115) \div 100,
                        !.rolls = @ + 1]
        ELSE p1

\* runBacktest: the close when both spreads are exited, else the expiry exit
BtClose(pos, trades, slot) ==
  LET BtTrade(p, reason) ==
        [pnl |-> BtPositionPnl(p), closeReason |-> reason, rolls |-> p.rolls]
  IN
  IF pos.callStatus = "EXITED" /\ pos.putStatus = "EXITED"
  THEN [pos |-> BtNoPos, trades |-> Append(trades, BtTrade(pos, "Both Spreads Exited"))]
  ELSE IF slot = "expiry"
  THEN LET p1 == IF pos.callStatus = "ACTIVE"
                 THEN [pos EXCEPT !.callExitCost = << (pos.callNetCredit * 5) \div 100 >>,
                                  !.callStatus = "EXITED"]
                 ELSE pos
           p2 == IF p1.putStatus = "ACTIVE"
                 THEN [p1 EXCEPT !.putExitCost = << (p1.putNetCredit * 5) \div 100 >>,
                                 !.putStatus = "EXITED"]
                 ELSE p1
       IN  [pos |-> BtNoPos,
            trades |-> Append(trades, BtTrade(p2, IF pos.slHit THEN "Expiry (post-SL)"
                                                  ELSE "Expiry Exit"))]
  ELSE [pos |-> pos, trades |-> trades]

\* runBacktest: one turn of the loop over the candles
BtCandle ==
  \E c \in BtCandles :
    LET slot  == c[1]
        spot  == c[2]
        opens == ~btPos.inPos /\ slot = "entry"
        p0    == IF opens THEN BtOpenPosition(spot) ELSE btPos
    IN  /\ opens => Len(btTrades) < MaxBtTrades
        /\ IF ~p0.inPos
           THEN /\ btLast' = [slot |-> slot, spot |-> spot, monitored |-> FALSE,
                              before |-> p0, callCost |-> 0, putCost |-> 0,
                              exited |-> p0, rolled |-> p0]
                /\ UNCHANGED <<btPos, btTrades>>
           ELSE \E callCost \in {BtCallSpreadCost(spot, p0)},
                   putCost \in {BtPutSpreadCost(spot, p0)} :
                  \E p1 \in {BtExit4x(p0, callCost, putCost)} :
                    \E p2 \in {BtRoll3x(p1, spot, callCost, putCost)} :
                      \E R \in {BtClose(p2, btTrades, slot)} :
                        /\ btPos' = R.pos
                        /\ btTrades' = R.trades
                        /\ btLast' = [slot |-> slot, spot |-> spot, monitored |-> TRUE,
                                      before |-> p0, callCost |-> callCost,
                                      putCost |-> putCost, exited |-> p1, rolled |-> p2]

BtInit ==
  /\ btPos = BtNoPos
  /\ btTrades = << >>
  /\ btLast = [slot |-> "", spot |-> 0, monitored |-> FALSE, before |-> BtNoPos,
               callCost |-> 0, putCost |-> 0, exited |-> BtNoPos, rolled |-> BtNoPos]

\* ================================================================= BTR
\* The result files of the three backtest harnesses: runBacktest of
\* src/server/src/index.js ("ironcondor"), of
\* src/server/scripts/backtestDeltaNeutral.js ("deltaneutral") and of
\* src/unnamed/part_012 ("ironcondorDay"), each run twice on one input.

BtrHarnesses == {"ironcondor", "deltaneutral", "ironcondorDay"}

\* pnl of the trades a replay closed
BtrPnls == {-900, 0, 400, 1300}

MaxBtrTrades == 3

\* wall-clock readings of new Date()
BtrClocks == {1, 2}

VARIABLES
  btrRuns   \* the harness run last, the trades of its replay, and the stats
            \* object its first and its second run wrote

btrVars == <<btrRuns>>

RECURSIVE BtrSum(_)
\* trades.reduce((s, t) => s + t.pnl, 0)
BtrSum(pnls) == IF pnls = << >> THEN 0 ELSE Head(pnls) + BtrSum(Tail(pnls))

\* Math.min(...allTrades.map(t => t.pnl), 0)
BtrMinPnl(pnls) ==
  CHOOSE m \in {0} \cup {pnls[n] : n \in 1..Len(pnls)} :
    \A n \in 1..Len(pnls) : m <= pnls[n] /\ m <= 0

RECURSIVE BtrDrawdown(_, _, _, _)
\* the peak / cumPnl / maxDrawdown loop
BtrDrawdown(pnls, cum, peak, maxDD) ==
  IF pnls = << >> THEN maxDD
  ELSE LET c == cum + Head(pnls)
           p == IF c > peak THEN c ELSE peak
       IN  BtrDrawdown(Tail(pnls), c, p, IF p - c > maxDD THEN p - c ELSE maxDD)

\* the stats object written to the result file, of which the counts, the
\* totals, the trades and the timestamp are kept; now is new Date()
BtrStats(harness, pnls, now) ==
  LET winners == SelectSeq(pnls, LAMBDA x : x > 0)
      losers  == IF harness = "ironcondorDay" THEN SelectSeq(pnls, LAMBDA x : x < 0)
                 ELSE SelectSeq(pnls, LAMBDA x : x <= 0)
  IN  [totalPnl |-> BtrSum(pnls),
       totalTrades |-> Len(pnls),
       winners |-> Len(winners),
       losers |-> Len(losers),
       maxDrawdown |-> IF harness = "ironcondor" THEN BtrMinPnl(pnls)
                       ELSE BtrDrawdown(pnls, 0, 0, 0),
       trades |-> pnls,
       lastUpdated |-> IF harness = "ironcondorDay" THEN << >> ELSE << now >>]

\* the trade lists of at most MaxBtrTrades trades
BtrTradeLists ==
  UNION {[1..n -> BtrPnls] : n \in 0..MaxBtrTrades}

\* a harness is run, and then run again on the same candles and configuration
BtrRunTwice ==
  \E harness \in BtrHarnesses, pnls \in BtrTradeLists :
    \E now1 \in BtrClocks, now2 \in BtrClocks :
      /\ now1 <= now2
      /\ btrRuns' = [harness |-> harness, input |-> pnls, runs |-> 2,
                     first |-> BtrStats(harness, pnls, now1),
                     second |-> BtrStats(harness, pnls, now2)]

BtrInit ==
  btrRuns = [harness |-> "", input |-> << >>, runs |-> 0,
             first |-> BtrStats("ironcondorDay", << >>, 1),
             second |-> BtrStats("ironcondorDay", << >>, 1)]

\* ================================================================= ICS
\* IronCondorStrategy.openPosition (strategies/ironCondorStrategy.js), called
\* with the premiums of the four legs.  Amounts are in paise.

\* CONFIG[index].ONE_PERCENT, in rupees
ONE_PERCENT == [NIFTY |-> 12, SENSEX |-> 38]

\* premiums openPosition is called with, as callBuy, callSell, putBuy, putSell:
\* combined credits 6.00, 9.60, 12.00, 19.20, 24.00, 26.00, 30.00 (NIFTY) and
\* 20.00, 38.00, 60.80, 65.00, 70.00, 76.00 (SENSEX)
IcsPremiums ==
  [NIFTY  |-> { Quote(200, 500, 200, 500),   Quote(320, 800, 320, 800),
                Quote(400, 1000, 400, 1000), Quote(640, 1600, 640, 1600),
                Quote(500, 1700, 500, 1700), Quote(600, 2000, 600, 1800),
                Quote(700, 2200, 700, 2200) },
   SENSEX |-> { Quote(500, 1500, 500, 1500),   Quote(1100, 3000, 1100, 3000),
                Quote(1960, 5000, 1960, 5000), Quote(1500, 4500, 1500, 5000),
                Quote(1500, 5000, 1500, 5000), Quote(1700, 5500, 1700, 5500) }]

\* ADJUSTMENT_3X / ADJUSTMENT_4X, in hundredths of the sell premium
ADJUSTMENT_3X == 300

ADJUSTMENT_4X == 400

\* DECAY_TRIGGER / DISCRETIONARY_DECAY, in hundredths
DECAY_TRIGGER == 70

DISCRETIONARY_DECAY == 80

MAX_SYSTEM_ROLLS == 1

MAX_DISCRETIONARY == 1

\* rolls recorded on the slots together
MaxIcsRolls == 1

\* the slots whose position is marked to market and rolled
IcsMtmIndexes == {"NIFTY"}

\* current premiums updateMTM is called with, as <<call, put>>: a decayed call,
\* a decayed put, a call short of 80% with the put past 4x, a call past 3x
\* with the put decayed 70%
IcsCurrents == { <<200, 1000>>, <<1000, 200>>, <<400, 8000>>, <<6000, 300>> }

\* arguments checkAdjustmentTriggers is called with, as <<callExpansion,
\* putExpansion, callDecay, putDecay>> in hundredths
IcsTriggerArgs ==
  { <<20, 100, 80, 0>>, <<100, 18, 0, 82>>, <<21, 100, 79, 0>>,
    <<300, 20, -200, 80>>, <<400, 100, -300, 0>> }

VARIABLES
  icsPos,   \* strategy.positions
  icsLast   \* the call made last: its index, what it was passed, what it
            \* returned, and the status the slot had

icsVars == <<icsPos, icsLast>>

\* callSpread / putSpread holding null
IcsNullSpread ==
  [status |-> "NONE", sellPremium |-> 0, buyPremium |-> 0, netCredit |-> 0,
   currentPremium |-> 0, currentMTM |-> 0, decay |-> 0, expansion |-> 0]

\* emptyPosition(index)
IcsEmptyPosition ==
  [status |-> "IDLE", callSpread |-> IcsNullSpread, putSpread |-> IcsNullSpread,
   totalCredit |-> 0, currentMTM |-> 0, pnl |-> 0, systemRolls |-> 0,
   discretionaryRolls |-> 0, adjustments |-> << >>, alerts |-> << >>]

\* buildLegs(): one of the two spreads
IcsBuildLeg(sell, buy) ==
  [IcsNullSpread EXCEPT !.status = "ACTIVE", !.sellPremium = sell, !.buyPremium = buy,
                        !.netCredit = sell - buy]

\* openPosition: creditOk.  targetCredit * 0.8 is a double just above the
\* decimal (24 * 0.8 = 19.200000000000003, 76 * 0.8 = 60.800000000000004), so
\* a two-decimal credit passes only when it exceeds 0.8 x targetCredit.
IcsCreditOk(totalCredit, targetCredit) == totalCredit * 10 > targetCredit * 100 * 8

\* openPosition(index, spotPrice, premiums, expiryDate): the slot it leaves
\* and whether it returned the position
IcsOpenPosition(pos, index, premiums) ==
  LET callNetCredit == premiums["callSell"] - premiums["callBuy"]
      putNetCredit  == premiums["putSell"] - premiums["putBuy"]
      totalCredit   == callNetCredit + putNetCredit
      targetCredit  == ONE_PERCENT[index] * 2
  IN  IF ~IcsCreditOk(totalCredit, targetCredit)
      THEN [pos |-> pos, ret |-> "null"]
      ELSE [pos |-> [pos EXCEPT ![index] =
                       [IcsEmptyPosition EXCEPT
                          !.status = "ACTIVE",
                          !.callSpread = IcsBuildLeg(premiums["callSell"], premiums["callBuy"]),
                          !.putSpread = IcsBuildLeg(premiums["putSell"], premiums["putBuy"]),
                          !.totalCredit = totalCredit]],
            ret |-> "position"]

\* parseFloat((num / den).toFixed(2)), in hundredths
IcsRound2(num, den) ==
  IF num >= 0 THEN (200 * num + den) \div (2 * den)
  ELSE -((200 * (-num) + den) \div (2 * den))

IcsAlert(type, side, severity) == [type |-> type, side |-> side, severity |-> severity]

\* checkAdjustmentTriggers() executing the discretionary roll it suggests
IcsCheckAdjustmentTriggersRolling(pos, callExpansion, putExpansion, callDecay, putDecay, isExpiryDay) ==
  LET disc == isExpiryDay /\ pos.discretionaryRolls < MAX_DISCRETIONARY
      call == disc /\ callDecay >= DISCRETIONARY_DECAY
      put  == disc /\ putDecay >= DISCRETIONARY_DECAY
      a    == (IF call THEN << IcsAlert("DISCRETIONARY_ROLL", "CALL", "INFO") >> ELSE << >>)
              \o (IF put THEN << IcsAlert("DISCRETIONARY_ROLL", "PUT", "INFO") >> ELSE << >>)
  IN  IF a = << >> THEN [pos EXCEPT !.alerts = a]
      ELSE [pos EXCEPT !.alerts = a,
                       !.discretionaryRolls = @ + 1,
                       !.adjustments = Append(@, [type |-> "DISCRETIONARY_ROLL",
                                                  side |-> a[1].side])]

\* checkAdjustmentTriggers(index, callExpansion, putExpansion, callDecay,
\* putDecay); isExpiryDay is this.isExpiryDay(index)
IcsCheckAdjustmentTriggers(pos, callExpansion, putExpansion, callDecay, putDecay, isExpiryDay) ==
  LET sys  == pos.systemRolls < MAX_SYSTEM_ROLLS
      disc == isExpiryDay /\ pos.discretionaryRolls < MAX_DISCRETIONARY
      a1 == IF callExpansion >= ADJUSTMENT_3X /\ putDecay >= DECAY_TRIGGER /\ sys
            THEN << IcsAlert("SYSTEM_ADJUSTMENT", "CALL", "HIGH") >> ELSE << >>
      a2 == IF putExpansion >= ADJUSTMENT_3X /\ callDecay >= DECAY_TRIGGER /\ sys
            THEN << IcsAlert("SYSTEM_ADJUSTMENT", "PUT", "HIGH") >> ELSE << >>
      a3 == IF callExpansion >= ADJUSTMENT_4X
            THEN << IcsAlert("EXIT_SPREAD", "CALL", "CRITICAL") >> ELSE << >>
      a4 == IF putExpansion >= ADJUSTMENT_4X
            THEN << IcsAlert("EXIT_SPREAD", "PUT", "CRITICAL") >> ELSE << >>
      a5 == IF disc /\ callDecay >= DISCRETIONARY_DECAY
            THEN << IcsAlert("DISCRETIONARY_ROLL", "CALL", "INFO") >> ELSE << >>
      a6 == IF disc /\ putDecay >= DISCRETIONARY_DECAY
            THEN << IcsAlert("DISCRETIONARY_ROLL", "PUT", "INFO") >> ELSE << >>
  IN  [pos EXCEPT !.alerts = a1 \o a2 \o a3 \o a4 \o a5 \o a6]

\* updateMTM(): what it passes to checkAdjustmentTriggers, as
\* <<callExpansion, putExpansion, callDecay, putDecay>>
IcsTriggersOf(pos, callCur, putCur) ==
  << IcsRound2(callCur, pos.callSpread.sellPremium),
     IcsRound2(putCur, pos.putSpread.sellPremium),
     IcsRound2(pos.callSpread.sellPremium - callCur, pos.callSpread.sellPremium),
     IcsRound2(pos.putSpread.sellPremium - putCur, pos.putSpread.sellPremium) >>

\* updateMTM(index, callCurrentPremium, putCurrentPremium) on a slot that is
\* neither IDLE nor CLOSED
IcsUpdateMTM(pos, callCur, putCur, isExpiryDay) ==
  LET callMTM == pos.callSpread.netCredit - callCur
      putMTM  == pos.putSpread.netCredit - putCur
      t       == IcsTriggersOf(pos, callCur, putCur)
      p1 == [pos EXCEPT !.callSpread.currentMTM = callMTM,
                        !.putSpread.currentMTM = putMTM,
                        !.currentMTM = callMTM + putMTM,
                        !.pnl = callMTM + putMTM,
                        !.callSpread.currentPremium = callCur,
                        !.putSpread.currentPremium = putCur,
                        !.callSpread.decay = t[3],
                        !.putSpread.decay = t[4],
                        !.callSpread.expansion = t[1],
                        !.putSpread.expansion = t[2]]
  IN  IcsCheckAdjustmentTriggers(p1, t[1], t[2], t[3], t[4], isExpiryDay)

\* recordSystemRoll(index, side) / recordDiscretionaryRoll(index, side)
IcsRecordRoll(pos, type, side) ==
  IF type = "SYSTEM_ROLL"
  THEN [pos EXCEPT !.systemRolls = @ + 1,
                   !.adjustments = Append(@, [type |-> type, side |-> side])]
  ELSE [pos EXCEPT !.discretionaryRolls = @ + 1,
                   !.adjustments = Append(@, [type |-> type, side |-> side])]

\* what icsLast holds of a call that is not the one described
IcsNoLast ==
  [op |-> "", index |-> "", premiums |-> Quote(0, 0, 0, 0), ret |-> "", was |-> "",
   trig |-> << >>, isExpiryDay |-> FALSE]

\* a call of openPosition
IcsOpenCall ==
  \E index \in IndexSet :
    \E premiums \in IcsPremiums[index] :
      \E R \in {IcsOpenPosition(icsPos, index, premiums)} :
        /\ icsPos' = R.pos
        /\ icsLast' = [IcsNoLast EXCEPT !.op = "openPosition", !.index = index,
                                        !.premiums = premiums, !.ret = R.ret,
                                        !.was = icsPos[index].status]

\* a call of updateMTM; moment().day() makes it the index's expiry day or not
IcsUpdateMTMCall ==
  \E index \in IcsMtmIndexes, isExpiryDay \in BOOLEAN :
    \E cur \in IcsCurrents :
      IF icsPos[index].status \in {"IDLE", "CLOSED"}
      THEN /\ icsPos' = icsPos
           /\ icsLast' = [IcsNoLast EXCEPT !.op = "updateMTM", !.index = index,
                                           !.ret = "null"]
      ELSE /\ icsPos' = [icsPos EXCEPT ![index] =
                           IcsUpdateMTM(@, cur[1], cur[2], isExpiryDay)]
           /\ icsLast' = [IcsNoLast EXCEPT
                            !.op = "updateMTM", !.index = index, !.ret = "position",
                            !.trig = IcsTriggersOf(icsPos[index], cur[1], cur[2]),
                            !.isExpiryDay = isExpiryDay]

\* a call of checkAdjustmentTriggers
IcsTriggersCall ==
  \E index \in IcsMtmIndexes, isExpiryDay \in BOOLEAN :
    \E t \in IcsTriggerArgs :
      /\ icsPos' = [icsPos EXCEPT ![index] =
                      IcsCheckAdjustmentTriggers(@, t[1], t[2], t[3], t[4], isExpiryDay)]
      /\ icsLast' = [IcsNoLast EXCEPT !.op = "checkAdjustmentTriggers", !.index = index,
                                      !.ret = "alerts", !.trig = t,
                                      !.isExpiryDay = isExpiryDay]

\* rolls recorded on the slots
IcsRollsRecorded ==
  Len(icsPos["NIFTY"].adjustments) + Len(icsPos["SENSEX"].adjustments)

\* a call of recordSystemRoll or recordDiscretionaryRoll
IcsRollCall ==
  \E index \in IcsMtmIndexes, type \in {"SYSTEM_ROLL", "DISCRETIONARY_ROLL"} :
    /\ IcsRollsRecorded < MaxIcsRolls
    /\ icsPos' = [icsPos EXCEPT ![index] = IcsRecordRoll(@, type, "CALL")]
    /\ icsLast' = [IcsNoLast EXCEPT !.op = "recordRoll", !.index = index]

IcsInit ==
  /\ icsPos = [i \in IndexSet |-> IcsEmptyPosition]
  /\ icsLast = IcsNoLast

\* ================================================================= ATM
\* AtmScalpingEngine of src/unnamed/part_008: executeStrategy on the 3-minute
\* cron, closeAll('TIME_EXIT') on the 15:21 cron.  Prices in NIFTY points.

\* parseInt(process.env.MAX_RANGE_POINTS) || 30
AtmMaxRange == 30

\* trading days observed
MaxAtmDays == 2

\* trades archived
MaxAtmHist == 3

\* a 3-minute candle
Candle(o, h, l, c) == [open |-> o, high |-> h, low |-> l, close |-> c]

\* what getHistoricalData and getLTP answer to one executeStrategy run: the
\* number of candles, whether the last but one is the 9:15 candle, the last
\* two candles, and the NIFTY last price (0: none)
AtmFeeds ==
  { [n |-> 2, first |-> FALSE, c1 |-> Candle(100, 110, 95, 108),
     c2 |-> Candle(108, 112, 100, 102), ltp |-> 115],
    [n |-> 3, first |-> TRUE, c1 |-> Candle(100, 110, 95, 108),
     c2 |-> Candle(108, 112, 100, 102), ltp |-> 115],
    [n |-> 3, first |-> FALSE, c1 |-> Candle(100, 110, 95, 108),
     c2 |-> Candle(108, 112, 100, 102), ltp |-> 0],
    [n |-> 3, first |-> FALSE, c1 |-> Candle(100, 110, 95, 108),
     c2 |-> Candle(108, 112, 100, 102), ltp |-> 105],
    [n |-> 3, first |-> FALSE, c1 |-> Candle(100, 110, 95, 108),
     c2 |-> Candle(108, 112, 100, 102), ltp |-> 115],
    [n |-> 3, first |-> FALSE, c1 |-> Candle(100, 110, 95, 108),
     c2 |-> Candle(108, 112, 100, 102), ltp |-> 90],
    [n |-> 3, first |-> FALSE, c1 |-> Candle(100, 110, 95, 108),
     c2 |-> Candle(108, 125, 100, 102), ltp |-> 130],
    [n |-> 3, first |-> FALSE, c1 |-> Candle(100, 110, 95, 108),
     c2 |-> Candle(108, 124, 100, 102), ltp |-> 130],
    [n |-> 3, first |-> FALSE, c1 |-> Candle(100, 110, 95, 108),
     c2 |-> Candle(102, 112, 100, 109), ltp |-> 115] }

VARIABLES
  atmRunning,  \* engine.running
  atmPos,      \* engine.positions.NIFTY
  atmHist,     \* engine.history
  atmDay,      \* the trading day (what new Date().toLocaleDateString gives)
  atmLast      \* the handler that ran last

atmVars == <<atmRunning, atmPos, atmHist, atmDay, atmLast>>

\* { status: 'IDLE' }
AtmIdle ==
  [status |-> "IDLE", direction |-> "", entryPrice |-> 0, slPrice |-> 0,
   tgtPrice |-> 0, date |-> 0]

\* openPosition(direction, ltp, high, low) on day
AtmOpenPosition(direction, ltp, high, low, day) ==
  LET slPts  == IF direction = "CE" THEN ltp - low ELSE high - ltp
      tgtPts == slPts * 3
  IN  [status |-> "ACTIVE", direction |-> direction, entryPrice |-> ltp,
       slPrice |-> IF direction = "CE" THEN low ELSE high,
       tgtPrice |-> IF direction = "CE" THEN ltp + tgtPts ELSE ltp - tgtPts,
       date |-> day]

\* executeStrategy(): the position it leaves
AtmExecuteStrategy(pos, feed, day) ==
  IF pos.status # "IDLE" THEN pos
  ELSE IF feed.n < 3 THEN pos
  ELSE IF feed.first THEN pos
  ELSE
    LET c1 == feed.c1
        c2 == feed.c2
        isOpposite == (c1.close > c1.open) # (c2.close > c2.open)
        high  == IF c1.high >= c2.high THEN c1.high ELSE c2.high
        low   == IF c1.low <= c2.low THEN c1.low ELSE c2.low
        range == high - low
    IN  IF ~(isOpposite /\ range < AtmMaxRange) THEN pos
        ELSE IF feed.ltp = 0 THEN pos
        ELSE IF feed.ltp > high THEN AtmOpenPosition("CE", feed.ltp, high, low, day)
        ELSE IF feed.ltp < low THEN AtmOpenPosition("PE", feed.ltp, high, low, day)
        ELSE pos

\* closeAll(reason, exitPrice = null) on an open position: the ledger entry
AtmClosed(pos, reason) ==
  [direction |-> pos.direction, entryPrice |-> pos.entryPrice, date |-> pos.date,
   closeReason |-> reason, exitPrice |-> pos.entryPrice, pnl |-> 0]

\* start() / stop()
AtmStartStop ==
  /\ atmRunning' = ~atmRunning
  /\ atmLast' = "startStop"
  /\ UNCHANGED <<atmPos, atmHist, atmDay>>

\* cron '*/3 9-15 * * 1-5': if (this.running) executeStrategy()
AtmExecuteTick ==
  /\ atmRunning
  /\ \E feed \in AtmFeeds :
       atmPos' = AtmExecuteStrategy(atmPos, feed, atmDay)
  /\ atmLast' = "executeStrategy"
  /\ UNCHANGED <<atmRunning, atmHist, atmDay>>

\* cron '21 15 * * 1-5': if (this.running) closeAll('TIME_EXIT')
AtmTimeExitTick ==
  /\ atmRunning
  /\ Len(atmHist) < MaxAtmHist
  /\ IF atmPos.status = "IDLE" THEN UNCHANGED <<atmPos, atmHist>>
     ELSE /\ atmHist' = Append(atmHist, AtmClosed(atmPos, "TIME_EXIT"))
          /\ atmPos' = AtmIdle
  /\ atmLast' = "closeAll"
  /\ UNCHANGED <<atmRunning, atmDay>>

\* midnight: the next trading day begins
AtmNextDay ==
  /\ atmDay < MaxAtmDays
  /\ atmDay' = atmDay + 1
  /\ atmLast' = "nextDay"
  /\ UNCHANGED <<atmRunning, atmPos, atmHist>>

AtmInit ==
  /\ atmRunning = FALSE
  /\ atmPos = AtmIdle
  /\ atmHist = << >>
  /\ atmDay = 1
  /\ atmLast = ""

\* ================================================================== SC
\* ScalpingStrategy of src/server/src/strategies/scalpingStrategy.js under
\* TradingEngine of src/server/src/services/tradingEngine.js.  NIFTY levels in
\* points, option prices and rupee amounts in paise, times in minutes of the
\* day.

\* CONFIG.QTY
ScQty == 65

\* CONFIG.MAX_RANGE_POINTS
MAX_RANGE_POINTS == 30

\* CONFIG.TRAIL_RUPEES, in paise
TRAIL_RUPEES == 300000

\* CONFIG.EXIT_TIME, 15:21
EXIT_TIME == 921

\* 09:15, the candle addCandle ignores
FirstCandleTime == 555

\* paper trades kept
MaxScTrades == 1

\* times of the candles and of the monitor ticks
ScTimes == {FirstCandleTime, 600, EXIT_TIME}

\* candles the feed delivers: a green one, red ones that make combined ranges
\* of 17 and 30 with it, and a green one that breaks out of both setups and
\* makes a range above 30 with either red one
ScCandles ==
  { Candle(100, 110, 95, 108),  Candle(108, 112, 100, 102),
    Candle(108, 125, 100, 102), Candle(111, 140, 105, 135) }

\* option prices the gateway quotes when the trade is entered (0: none,
\* -1: getLTP threw)
ScEntryQuotes == {-1, 0, 10000}

\* option prices the gateway quotes to the monitor (0: none)
ScMonitorQuotes == {0, 9800, 12000, 15000}

VARIABLES
  scRunning,   \* engine.running
  scStrategy,  \* engine.strategy
  scSetup,     \* engine.currentSetup
  scLast       \* the handler that ran last, the candles checkSetup read in
               \* it and whether it returned a setup

scVars == <<scRunning, scStrategy, scSetup, scLast>>

\* currentSetup = null
ScNoSetup == [found |-> FALSE, highestHigh |-> 0, lowestLow |-> 0, combinedRange |-> 0]

\* currentTrade = null
ScNoTrade ==
  [status |-> "NONE", direction |-> "", entryOptionPrice |-> 0, slOptionPrice |-> 0,
   tgtOptionPrice |-> 0, pnl |-> 0, trailing |-> FALSE, trailSLPrice |-> 0,
   exitPrice |-> 0, closeReason |-> ""]

\* reset(); candles holds the last two candles pushed, the only ones read
ScReset ==
  [candles |-> << >>, tradeTakenToday |-> FALSE, currentTrade |-> ScNoTrade,
   firstCandleDone |-> FALSE, paperTrades |-> << >>]

\* newDay()
ScNewDay(st) ==
  [st EXCEPT !.candles = << >>, !.tradeTakenToday = FALSE,
             !.currentTrade = ScNoTrade, !.firstCandleDone = FALSE]

\* checkSetup() on the last two candles
ScCheckSetup(c1, c2) ==
  LET c1Green == c1.close > c1.open
      c2Green == c2.close > c2.open
      highestHigh == IF c1.high >= c2.high THEN c1.high ELSE c2.high
      lowestLow   == IF c1.low <= c2.low THEN c1.low ELSE c2.low
      combinedRange == highestHigh - lowestLow
  IN  IF c1Green = c2Green THEN ScNoSetup
      ELSE IF combinedRange > MAX_RANGE_POINTS THEN ScNoSetup
      ELSE [found |-> TRUE, highestHigh |-> highestHigh, lowestLow |-> lowestLow,
            combinedRange |-> combinedRange]

\* addCandle(candle): the strategy it leaves, the setup it returns (ScNoSetup
\* for null) and whether it went as far as checkSetup
ScAddCandle(st, candle, time) ==
  IF time = FirstCandleTime
  THEN [st |-> [st EXCEPT !.firstCandleDone = TRUE], setup |-> ScNoSetup, checked |-> FALSE]
  ELSE IF ~st.firstCandleDone \/ st.tradeTakenToday \/ time >= EXIT_TIME
  THEN [st |-> st, setup |-> ScNoSetup, checked |-> FALSE]
  ELSE LET cs == IF st.candles = << >> THEN << candle >>
                 ELSE << st.candles[Len(st.candles)], candle >>
           st1 == [st EXCEPT !.candles = cs]
       IN  IF Len(cs) < 2 THEN [st |-> st1, setup |-> ScNoSetup, checked |-> FALSE]
           ELSE [st |-> st1, setup |-> ScCheckSetup(cs[1], cs[2]), checked |-> TRUE]

\* checkBreakout(currentCandle, setup): the signal, of which the direction
\* and the SL and target premiums are kept (direction "" for null)
ScCheckBreakout(st, candle, time, setup) ==
  LET ceBreakout == candle.high > setup.highestHigh
      peBreakout == candle.low < setup.lowestLow
      distanceToCE == IF candle.open >= setup.highestHigh
                      THEN candle.open - setup.highestHigh
                      ELSE setup.highestHigh - candle.open
      distanceToPE == IF candle.open >= setup.lowestLow
                      THEN candle.open - setup.lowestLow
                      ELSE setup.lowestLow - candle.open
      direction == IF ceBreakout /\ peBreakout
                   THEN (IF distanceToCE <= distanceToPE THEN "CE" ELSE "PE")
                   ELSE IF ceBreakout THEN "CE" ELSE "PE"
      slPoints  == setup.highestHigh - setup.lowestLow
      none      == [direction |-> "", slPremium |-> 0, tgtPremium |-> 0]
  IN  IF ~setup.found \/ time >= EXIT_TIME \/ st.tradeTakenToday
         \/ (~ceBreakout /\ ~peBreakout)
      THEN [st |-> st, signal |-> none]
      ELSE [st |-> [st EXCEPT !.tradeTakenToday = TRUE],
            signal |-> [direction |-> direction, slPremium |-> slPoints * 50,
                        tgtPremium |-> slPoints * 3 * 50]]

\* executePaperTrade(signal, optionLTP)
ScExecutePaperTrade(st, signal, optionLTP) ==
  LET candleSLPrice  == optionLTP - signal.slPremium
      percentSLPrice == RoundDiv(optionLTP * 99, 100)
  IN  [st EXCEPT !.currentTrade =
         [ScNoTrade EXCEPT !.status = "OPEN", !.direction = signal.direction,
                           !.entryOptionPrice = optionLTP,
                           !.slOptionPrice = Max(candleSLPrice, percentSLPrice),
                           !.tgtOptionPrice = optionLTP + signal.tgtPremium]]

\* closeTrade(exitPrice, reason)
ScCloseTrade(st, exitPrice, reason) ==
  LET trade == [st.currentTrade EXCEPT
                  !.exitPrice = exitPrice,
                  !.pnl = (exitPrice - st.currentTrade.entryOptionPrice) * ScQty,
                  !.status = "CLOSED", !.closeReason = reason]
  IN  [st EXCEPT !.paperTrades = Append(@, trade), !.currentTrade = ScNoTrade]

\* monitorTrade(currentLTP); time is moment() at the call
ScMonitorTrade(st, currentLTP, time) ==
  LET trade == st.currentTrade
      pnl   == (currentLTP - trade.entryOptionPrice) * ScQty
      st1   == [st EXCEPT !.currentTrade.pnl = pnl]
      activeSL == IF trade.trailing THEN trade.trailSLPrice ELSE trade.slOptionPrice
  IN  IF trade.status # "OPEN" THEN st
      ELSE IF time >= EXIT_TIME THEN ScCloseTrade(st1, currentLTP, "TIME_EXIT")
      ELSE IF pnl >= TRAIL_RUPEES /\ ~trade.trailing
      THEN [st1 EXCEPT !.currentTrade.trailing = TRUE,
                       !.currentTrade.trailSLPrice = trade.tgtOptionPrice]
      ELSE IF currentLTP <= activeSL
      THEN ScCloseTrade(st1, activeSL, IF trade.trailing THEN "TRAIL_SL_HIT" ELSE "SL_HIT")
      ELSE IF currentLTP >= trade.tgtOptionPrice /\ ~trade.trailing
      THEN ScCloseTrade(st1, trade.tgtOptionPrice, "TARGET_HIT")
      ELSE st1

\* forceExit(currentLTP)
ScForceExit(st, currentLTP) ==
  IF st.currentTrade.status # "OPEN" THEN st
  ELSE ScCloseTrade(st, currentLTP, "MANUAL_EXIT")

ScNoLast == [op |-> "", checked |-> FALSE, found |-> FALSE,
             c1 |-> Candle(0, 0, 0, 0), c2 |-> Candle(0, 0, 0, 0)]

\* start() and stop(): the flag is written here and read by getStatus() only
ScStartStop ==
  /\ scRunning' = ~scRunning
  /\ scLast' = [ScNoLast EXCEPT !.op = "startStop"]
  /\ UNCHANGED <<scStrategy, scSetup>>

\* cron '0 9 * * 1-5': strategy.newDay(); currentSetup = null
ScNewDayTick ==
  /\ scStrategy' = ScNewDay(scStrategy)
  /\ scSetup' = ScNoSetup
  /\ scLast' = [ScNoLast EXCEPT !.op = "newDay"]
  /\ UNCHANGED scRunning

\* cron '*/3 9-15 * * 1-5': fetchLatestCandle() -> processCandle(candle) ->
\* executeTrade(signal); ok is whether findATMOption answered, quote what
\* getLTP gave for the option
ScCandleTick ==
  \E candle \in ScCandles, time \in ScTimes :
    \E A \in {ScAddCandle(scStrategy, candle, time)} :
      /\ UNCHANGED scRunning
      /\ scLast' = [op |-> "addCandle", checked |-> A.checked, found |-> A.setup.found,
                    c1 |-> IF A.checked THEN A.st.candles[1] ELSE ScNoLast.c1,
                    c2 |-> IF A.checked THEN A.st.candles[2] ELSE ScNoLast.c2]
      /\ IF A.setup.found
         THEN /\ scStrategy' = A.st
              /\ scSetup' = A.setup
         ELSE IF scSetup.found /\ ~A.st.tradeTakenToday
         THEN \E B \in {ScCheckBreakout(A.st, candle, time, scSetup)} :
                IF B.signal.direction = ""
                THEN /\ scStrategy' = B.st
                     /\ scSetup' = scSetup
                ELSE /\ scSetup' = ScNoSetup
                     /\ \E ok \in BOOLEAN, quote \in ScEntryQuotes :
                          scStrategy' =
                            IF ok /\ Len(B.st.paperTrades) < MaxScTrades
                            THEN ScExecutePaperTrade(B.st, B.signal,
                                                     IF quote = -1 THEN B.signal.slPremium * 3
                                                     ELSE IF quote = 0 THEN 5000
                                                     ELSE quote)
                            ELSE B.st
         ELSE /\ scStrategy' = A.st
              /\ scSetup' = scSetup

\* cron '*/10 9-15 * * 1-5': monitorOpenTrade()
ScMonitorTick ==
  /\ scStrategy.currentTrade.status # "NONE"
  /\ \E quote \in ScMonitorQuotes, time \in ScTimes \ {FirstCandleTime} :
       scStrategy' = ScMonitorTrade(scStrategy,
                                    IF quote = 0 THEN scStrategy.currentTrade.entryOptionPrice
                                    ELSE quote, time)
  /\ scLast' = [ScNoLast EXCEPT !.op = "monitorTrade"]
  /\ UNCHANGED <<scRunning, scSetup>>

\* cron '21 15 * * 1-5': forceExitAll(), and manualExit()
ScForceExitTick ==
  /\ scStrategy.currentTrade.status # "NONE"
  /\ \E quote \in ScMonitorQuotes :
       scStrategy' = ScForceExit(scStrategy,
                                 IF quote = 0 THEN scStrategy.currentTrade.entryOptionPrice
                                 ELSE quote)
  /\ scLast' = [ScNoLast EXCEPT !.op = "forceExit"]
  /\ UNCHANGED <<scRunning, scSetup>>

ScInit ==
  /\ scRunning = FALSE
  /\ scStrategy = ScReset
  /\ scSetup = ScNoSetup
  /\ scLast = ScNoLast

\* ------------------------------------- BTD: scripts/backtestDeltaNeutral.js
\* The delta-neutral backtest loop, run on the premiums the live engine is
\* quoted: cur is the input of a candle (simulatePremiums is what produces it
\* from the candle's close).

VARIABLES
  btdPos,     \* runBacktest: pos (open = FALSE stands for null)
  btdTrades   \* runBacktest: trades

btdVars == <<btdPos, btdTrades>>

\* CFG.LOT_SIZE
BtdLotSize == 20

\* CFG.CALL_BUY_PREMIUM, PUT_BUY_PREMIUM, CALL_SELL_PREMIUM, PUT_SELL_PREMIUM
BtdPremium == [callBuy |-> 120, putBuy |-> 120, callSell |-> 80, putSell |-> 80]

\* NET_DEBIT
BtdNetDebit ==
  (BtdPremium["callBuy"] + BtdPremium["putBuy"])
    - (BtdPremium["callSell"] + BtdPremium["putSell"])

\* let pos = null
BtdNoPos ==
  [open |-> FALSE, legs |-> [k \in KeySet |-> "NONE"], trailSL |-> 0,
   closeReason |-> ""]

\* the pos object of the Friday entry (trailSL 0 stands for null)
BtdNewPos ==
  [open |-> TRUE, legs |-> [k \in KeySet |-> "ACTIVE"], trailSL |-> 0,
   closeReason |-> ""]

\* lockedProfitForPnl(pnl)
BtdLockedProfitForPnl(pnl) ==
  LET levels == <<1000, 2000, 3000, 4000, 5000, 6000, 7000, 8000>>
      locks  == <<250, 1000, 1750, 2500, 3250, 4000, 4750, 5500>>
      hit    == {i \in 1..Len(levels) : pnl >= levels[i]}
  IN  IF hit = {} THEN 0
      ELSE locks[CHOOSE i \in hit : \A j \in hit : j <= i]

\* pnlPerUnit * CFG.LOT_SIZE: the legs still ACTIVE only
BtdPnlRs(legs, cur) ==
  ( (IF legs["callBuy"] = "ACTIVE" THEN cur["callBuy"] - BtdPremium["callBuy"] ELSE 0)
  + (IF legs["putBuy"] = "ACTIVE" THEN cur["putBuy"] - BtdPremium["putBuy"] ELSE 0)
  + (IF legs["callSell"] = "ACTIVE" THEN BtdPremium["callSell"] - cur["callSell"] ELSE 0)
  + (IF legs["putSell"] = "ACTIVE" THEN BtdPremium["putSell"] - cur["putSell"] ELSE 0) )
  * BtdLotSize

\* closeTrade(): the entry pushed on trades, and pos = null
BtdCloseTrade(trades, reason, pnlRs) ==
  [pos |-> BtdNoPos,
   trades |-> Append(trades, [closeReason |-> reason, pnl |-> pnlRs])]

\* rules 2 and 3: a BUY leg 60% down exits its pair
BtdPairRule(legs, cur, buy, sell) ==
  IF legs[buy] = "ACTIVE"
     /\ (cur[buy] - BtdPremium[buy]) * 100 <= -60 * BtdPremium[buy]
  THEN [legs EXCEPT ![buy] = "EXITED", ![sell] = "EXITED"]
  ELSE legs

\* rules 4 and 5: a SELL leg 60% up exits alone
BtdSellRule(legs, cur, sell) ==
  IF legs[sell] = "ACTIVE"
     /\ (BtdPremium[sell] - cur[sell]) * 100 >= 60 * BtdPremium[sell]
  THEN [legs EXCEPT ![sell] = "EXITED"]
  ELSE legs

\* one candle of the MONITOR block with an open pos; monday: the candle is
\* at or after Monday 15:20
BtdMonitor(pos, trades, cur, monday) ==
  LET pnlRs == BtdPnlRs(pos.legs, cur)
      l2 == BtdPairRule(pos.legs, cur, "callBuy", "callSell")
      l3 == BtdPairRule(l2, cur, "putBuy", "putSell")
      l4 == BtdSellRule(l3, cur, "callSell")
      l5 == BtdSellRule(l4, cur, "putSell")
      activeBuyLegs  == SelectSeq(<<"callBuy", "putBuy">>, LAMBDA k : l5[k] = "ACTIVE")
      activeSellLegs == SelectSeq(<<"callSell", "putSell">>, LAMBDA k : l5[k] = "ACTIVE")
      trailMode == Len(activeBuyLegs) = 1 /\ Len(activeSellLegs) = 0
      lastLegPnl == (cur[activeBuyLegs[1]] - BtdPremium[activeBuyLegs[1]]) * BtdLotSize
      locked == BtdLockedProfitForPnl(lastLegPnl)
      trailSL == IF trailMode /\ locked > pos.trailSL THEN locked ELSE pos.trailSL
      p5 == [pos EXCEPT !.legs = l5, !.trailSL = trailSL]
  IN  IF pnlRs * 100 <= -(BtdNetDebit * BtdLotSize * 60)
      THEN BtdCloseTrade(trades, "Combined 60% SL", pnlRs)
      ELSE IF trailMode /\ trailSL # 0 /\ lastLegPnl <= trailSL
      THEN BtdCloseTrade(trades, "Trail SL Hit", pnlRs)
      ELSE IF Len(activeBuyLegs) = 0
      THEN BtdCloseTrade(trades, "All Legs Exited", pnlRs)
      ELSE IF monday
      THEN BtdCloseTrade(trades, "Monday 15:20 Exit", pnlRs)
      ELSE [pos |-> p5, trades |-> trades]

\* the legs of the backtest's pos that are ACTIVE
BtdActive == {k \in KeySet : btdPos.open /\ btdPos.legs[k] = "ACTIVE"}

\* the legs of the live position that are ACTIVE
DnActive == {k \in KeySet : dnLegs[dnPos.legs][k].status = "ACTIVE"}

\* the premiums both programs are run on (never 0: simulatePremiums floors
\* a premium at 0.1)
BtdMarkets ==
  { Quote(120, 80, 120, 80),
    Quote(40, 80, 200, 80),  Quote(200, 80, 40, 80),
    Quote(120, 30, 120, 80), Quote(120, 80, 120, 30),
    Quote(40, 80, 40, 80),   Quote(200, 80, 200, 80),
    Quote(40, 80, 120, 30),  Quote(130, 80, 130, 80) }

\* the live engine after handler t, invoked at segment o on view S, has run
\* to completion with quotes qv and no gateway failure
DnRunAll(S, t, o, qv) ==
  Finish(Run([S EXCEPT !.stk = << o >>, !.calls = <<>>], NoRes), qv, {})

\* the live engine takes the state of view S, reached by handler t
DnTake(S, t) ==
  /\ dnPos' = S.pos
  /\ dnLegs' = [L \in {S.pos.legs} |-> S.legs[L]]
  /\ dnHist' = S.hist
  /\ dnGen' = S.gen
  /\ dnFails' = S.fails
  /\ dnCalls' = [u \in DnTasks |-> IF u = t THEN S.calls ELSE <<>>]
  /\ UNCHANGED <<paper, dnRunning, dnStk>>

\* Friday 15:20: the cron of the live engine and the entry candle of the
\* backtest
BtdEnterBoth ==
  /\ ~btdPos.open
  /\ MayStart("enter")
  /\ dnGen < MaxPos
  /\ EnterGuard
  /\ \E S \in {DnRunAll(View("enter"), "enter", Op("Enter"), NoRes.q)} :
       DnTake(S, "enter")
  /\ btdPos' = BtdNewPos
  /\ UNCHANGED btdTrades

\* one tick: monitor() of the live engine and one candle of the backtest on
\* the same premiums
BtdMonitorBoth ==
  /\ MayStart("monitor")
  /\ dnRunning
  /\ btdPos.open
  /\ \E cur \in BtdMarkets :
       /\ \E S \in {DnRunAll(View("monitor"), "monitor", Op("Monitor"), cur)} :
            DnTake(S, "monitor")
       /\ \E B \in {BtdMonitor(btdPos, btdTrades, cur, FALSE)} :
            /\ btdPos' = B.pos
            /\ btdTrades' = B.trades

\* the Monday 15:20 tick: monitor() and then mondayTimeExit() of the live
\* engine, and the Monday 15:20 candle of the backtest, on the same premiums
BtdMondayBoth ==
  /\ MayStart("monitor")
  /\ MayStart("monday")
  /\ dnRunning
  /\ btdPos.open
  /\ \E cur \in BtdMarkets :
       /\ \E S1 \in {DnRunAll(View("monitor"), "monitor", Op("Monitor"), cur)} :
            IF S1.pos.status # "IDLE" /\ Len(S1.hist) < MaxHist
            THEN \E S2 \in {DnRunAll(S1, "monday", Op("Monday"), NoRes.q)} :
                   DnTake(S2, "monday")
            ELSE DnTake(S1, "monitor")
       /\ \E B \in {BtdMonitor(btdPos, btdTrades, cur, TRUE)} :
            /\ btdPos' = B.pos
            /\ btdTrades' = B.trades

BtdInit ==
  /\ btdPos = BtdNoPos
  /\ btdTrades = <<>>

\* ------------------------- FDS: deltaNeutralEngine.js, findDeltaStrikes()
\* The chain is the input; an option carries the absolute delta
\* calculateDelta gives it, in hundredths.

VARIABLES
  fdsLast     \* the last call of findDeltaStrikes: its chain, the four
              \* options of the scan and what it returned

fdsVars == <<fdsLast>>

\* CONFIG.BUY_DELTA, in hundredths
BUY_DELTA == 50

\* CONFIG.SELL_DELTA, in hundredths
SELL_DELTA == 40

\* the longest chain findDeltaStrikes is called with
FdsMaxChain == 5

\* let callBuyBest = null
FdsNone == [type |-> "", strike |-> 0, d |-> 0]

Opt(type, strike, d) == [type |-> type, strike |-> strike, d |-> d]

\* the options of one expiry: a call's delta falls with its strike, a put's
\* rises
FdsOptions ==
  { Opt("CE", 100, 52), Opt("CE", 200, 46), Opt("CE", 300, 20), Opt("CE", 400, 5),
    Opt("PE", 100, 5),  Opt("PE", 200, 20), Opt("PE", 300, 46), Opt("PE", 400, 52) }

\* the chains getOptionChain may return: the instruments in the order of the
\* dump
FdsChains ==
  UNION {{c \in [1..n -> FdsOptions] : \A i, j \in 1..n : i # j => c[i] # c[j]} :
           n \in 0..FdsMaxChain}

AbsDiff(a, b) == IF a >= b THEN a - b ELSE b - a

\* the for loop over the chain: the first option of the type whose delta is
\* closest to target (diff < best, so an earlier option keeps a tie);
\* expired: timeToExpiry <= 0, calculateDelta returns null for every option
RECURSIVE FdsScan(_, _, _, _, _)
FdsScan(chain, type, target, expired, best) ==
  IF chain = <<>> THEN best
  ELSE LET o == Head(chain)
           better == /\ ~expired
                     /\ o.type = type
                     /\ (best = FdsNone \/ AbsDiff(o.d, target) < AbsDiff(best.d, target))
       IN  FdsScan(Tail(chain), type, target, expired, IF better THEN o ELSE best)

\* chain.find(o => o.type === type && o.strike > strike) (above) or
\* o.strike < strike (not above): the first such option of the chain, or
\* undefined (FdsNone)
FdsFind(chain, type, strike, above) ==
  LET hits == {i \in 1..Len(chain) :
                 /\ chain[i].type = type
                 /\ IF above THEN chain[i].strike > strike ELSE chain[i].strike < strike}
  IN  IF hits = {} THEN FdsNone
      ELSE chain[CHOOSE i \in hits : \A j \in hits : i <= j]

\* what findDeltaStrikes returns when a leg was not found or reading
\* .strike of undefined threw into the catch
FdsNull == [ok |-> FALSE, callBuy |-> FdsNone, callSell |-> FdsNone,
            putBuy |-> FdsNone, putSell |-> FdsNone]

\* findDeltaStrikes(chain, spotPrice, expiry)
FindDeltaStrikes(chain, expired) ==
  LET callBuyBest  == FdsScan(chain, "CE", BUY_DELTA, expired, FdsNone)
      callSellBest == FdsScan(chain, "CE", SELL_DELTA, expired, FdsNone)
      putBuyBest   == FdsScan(chain, "PE", BUY_DELTA, expired, FdsNone)
      putSellBest  == FdsScan(chain, "PE", SELL_DELTA, expired, FdsNone)
      callSell2 == IF callBuyBest.strike = callSellBest.strike
                   THEN FdsFind(chain, "CE", callBuyBest.strike, TRUE)
                   ELSE callSellBest
      putSell2  == IF putBuyBest.strike = putSellBest.strike
                   THEN FdsFind(chain, "PE", putBuyBest.strike, FALSE)
                   ELSE putSellBest
  IN  IF FdsNone \in {callBuyBest, callSellBest, putBuyBest, putSellBest}
      THEN FdsNull
      ELSE IF FdsNone \in {callSell2, putSell2}
      THEN FdsNull
      ELSE [ok |-> TRUE,
            callBuy  |-> callBuyBest,
            callSell |-> [callSell2 EXCEPT !.d = callSellBest.d],
            putBuy   |-> putBuyBest,
            putSell  |-> [putSell2 EXCEPT !.d = putSellBest.d]]

FdsNoCall ==
  [called |-> FALSE, chain |-> <<>>, expired |-> FALSE,
   callBuyBest |-> FdsNone, callSellBest |-> FdsNone,
   putBuyBest |-> FdsNone, putSellBest |-> FdsNone, ret |-> FdsNull]

\* checkEntry() calls findDeltaStrikes on the chain it fetched (the function
\* keeps no state: one call per behaviour covers every call)
FdsCall ==
  /\ ~fdsLast.called
  /\ \E chain \in FdsChains, expired \in BOOLEAN :
    fdsLast' = [called |-> TRUE, chain |-> chain, expired |-> expired,
                callBuyBest  |-> FdsScan(chain, "CE", BUY_DELTA, expired, FdsNone),
                callSellBest |-> FdsScan(chain, "CE", SELL_DELTA, expired, FdsNone),
                putBuyBest   |-> FdsScan(chain, "PE", BUY_DELTA, expired, FdsNone),
                putSellBest  |-> FdsScan(chain, "PE", SELL_DELTA, expired, FdsNone),
                ret |-> FindDeltaStrikes(chain, expired)]

FdsInit == fdsLast = FdsNoCall

\* ================================================================ system
\* the offline parts: the backtest and the strategy class
offVars == <<btVars, icsVars, btrVars, atmVars, scVars, btdVars, fdsVars>>

vars == <<dnVars, icVars, dn2Vars, offVars>>

Init ==
  DnInit /\ IcInit /\ Dn2Init /\ BtInit /\ IcsInit /\ BtrInit /\ AtmInit /\ ScInit /\ BtdInit
    /\ FdsInit

\* DN with every handler run to completion before the next is invoked
NextDN ==
  \/ DnStartStop /\ UNCHANGED <<icVars, dn2Vars, offVars>>
  \/ DnEnterTick /\ UNCHANGED <<icVars, dn2Vars, offVars>>
  \/ DnMonitorTick /\ UNCHANGED <<icVars, dn2Vars, offVars>>
  \/ DnMondayTick /\ UNCHANGED <<icVars, dn2Vars, offVars>>
  \/ DnExitAllCall /\ UNCHANGED <<icVars, dn2Vars, offVars>>
  \/ DnExitLegsCall /\ UNCHANGED <<icVars, dn2Vars, offVars>>

SpecDN == Init /\ [][NextDN]_vars

\* DN as node runs it: a handler may be invoked while others are suspended
NextDNC ==
  \/ DnStartStop /\ UNCHANGED <<icVars, dn2Vars, offVars>>
  \/ DnEnterBegin /\ UNCHANGED <<icVars, dn2Vars, offVars>>
  \/ DnMonitorBegin /\ UNCHANGED <<icVars, dn2Vars, offVars>>
  \/ DnMondayBegin /\ UNCHANGED <<icVars, dn2Vars, offVars>>
  \/ DnResume /\ UNCHANGED <<icVars, dn2Vars, offVars>>

SpecDNC == Init /\ [][NextDNC]_vars

\* the live engine and the backtest loop side by side, tick by tick
NextDNB ==
  \/ DnStartStop /\ UNCHANGED <<icVars, dn2Vars, offVars>>
  \/ BtdEnterBoth /\ UNCHANGED <<icVars, dn2Vars, btVars, icsVars, btrVars, atmVars, scVars, fdsVars>>
  \/ BtdMonitorBoth /\ UNCHANGED <<icVars, dn2Vars, btVars, icsVars, btrVars, atmVars, scVars, fdsVars>>
  \/ BtdMondayBoth /\ UNCHANGED <<icVars, dn2Vars, btVars, icsVars, btrVars, atmVars, scVars, fdsVars>>

SpecDNB == Init /\ [][NextDNB]_vars

\* findDeltaStrikes on the chains of FdsChains
NextFDS ==
  FdsCall /\ UNCHANGED <<dnVars, icVars, dn2Vars, btVars, icsVars, btrVars, atmVars, scVars, btdVars>>

SpecFDS == Init /\ [][NextFDS]_vars

\* the state of DN other than PAPER_TRADE
DnState == <<dnRunning, dnPos, dnLegs, dnHist, dnStk, dnCalls, dnGen, dnFails>>

\* IC with every handler run to completion before the next is invoked
NextIC ==
  \/ IcStartStop /\ UNCHANGED <<DnState, dn2Vars, offVars>>
  \/ IcCheckEntryTick /\ UNCHANGED <<DnState, dn2Vars, offVars>>
  \/ IcMonitorTick /\ UNCHANGED <<DnState, dn2Vars, offVars>>
  \/ IcExpiryTick /\ UNCHANGED <<DnState, dn2Vars, offVars>>
  \/ IcRollCall /\ UNCHANGED <<DnState, dn2Vars, offVars>>
  \/ IcCloseCall /\ UNCHANGED <<DnState, dn2Vars, offVars>>

SpecIC == Init /\ [][NextIC]_vars

\* DN2 with every handler run to completion before the next is invoked
NextDN2 ==
  \/ Dn2StartStop /\ UNCHANGED <<DnState, icVars, offVars>>
  \/ Dn2CheckEntryTick /\ UNCHANGED <<DnState, icVars, offVars>>
  \/ Dn2MonitorTick /\ UNCHANGED <<DnState, icVars, offVars>>
  \/ Dn2ExitAllCall /\ UNCHANGED <<DnState, icVars, offVars>>
  \/ Dn2ExitLegsCall /\ UNCHANGED <<DnState, icVars, offVars>>

SpecDN2 == Init /\ [][NextDN2]_vars

\* the backtest replay
NextBT ==
  \/ BtCandle /\ UNCHANGED <<dnVars, icVars, dn2Vars, icsVars, btrVars, atmVars, scVars, btdVars, fdsVars>>

SpecBT == Init /\ [][NextBT]_vars

\* the strategy class under calls of its methods
NextICS ==
  \/ IcsOpenCall /\ UNCHANGED <<dnVars, icVars, dn2Vars, btVars, btrVars, atmVars, scVars, btdVars, fdsVars>>
  \/ IcsUpdateMTMCall /\ UNCHANGED <<dnVars, icVars, dn2Vars, btVars, btrVars, atmVars, scVars, btdVars, fdsVars>>
  \/ IcsTriggersCall /\ UNCHANGED <<dnVars, icVars, dn2Vars, btVars, btrVars, atmVars, scVars, btdVars, fdsVars>>
  \/ IcsRollCall /\ UNCHANGED <<dnVars, icVars, dn2Vars, btVars, btrVars, atmVars, scVars, btdVars, fdsVars>>

SpecICS == Init /\ [][NextICS]_vars

\* the backtest harnesses writing their result files
NextBTR ==
  \/ BtrRunTwice /\ UNCHANGED <<dnVars, icVars, dn2Vars, btVars, icsVars, atmVars, scVars, btdVars, fdsVars>>

SpecBTR == Init /\ [][NextBTR]_vars

\* the ATM scalping engine with every handler run to completion
NextATM ==
  \/ AtmStartStop /\ UNCHANGED <<dnVars, icVars, dn2Vars, btVars, icsVars, btrVars, scVars, btdVars, fdsVars>>
  \/ AtmExecuteTick /\ UNCHANGED <<dnVars, icVars, dn2Vars, btVars, icsVars, btrVars, scVars, btdVars, fdsVars>>
  \/ AtmTimeExitTick /\ UNCHANGED <<dnVars, icVars, dn2Vars, btVars, icsVars, btrVars, scVars, btdVars, fdsVars>>
  \/ AtmNextDay /\ UNCHANGED <<dnVars, icVars, dn2Vars, btVars, icsVars, btrVars, scVars, btdVars, fdsVars>>

SpecATM == Init /\ [][NextATM]_vars

\* the scalping engine with every handler run to completion
NextSC ==
  \/ ScStartStop /\ UNCHANGED <<dnVars, icVars, dn2Vars, btVars, icsVars, btrVars, atmVars, btdVars, fdsVars>>
  \/ ScNewDayTick /\ UNCHANGED <<dnVars, icVars, dn2Vars, btVars, icsVars, btrVars, atmVars, btdVars, fdsVars>>
  \/ ScCandleTick /\ UNCHANGED <<dnVars, icVars, dn2Vars, btVars, icsVars, btrVars, atmVars, btdVars, fdsVars>>
  \/ ScMonitorTick /\ UNCHANGED <<dnVars, icVars, dn2Vars, btVars, icsVars, btrVars, atmVars, btdVars, fdsVars>>
  \/ ScForceExitTick /\ UNCHANGED <<dnVars, icVars, dn2Vars, btVars, icsVars, btrVars, atmVars, btdVars, fdsVars>>

SpecSC == Init /\ [][NextSC]_vars

\* =============================================================== properties

\* C1: in the gateway calls of one exit run of the iron-condor engine, every
\* close order for a SELL leg of a position is issued before any close order
\* for a BUY leg of that position.
C1_SellClosesBeforeBuyCloses ==
  \A i, j \in 1..Len(icCalls) :
    ( /\ icCalls[i].kind = "exit" /\ icCalls[i].side = "BUY"
      /\ icCalls[j].kind = "exit" /\ icCalls[j].side = "SELL"
      /\ icCalls[i].index = icCalls[j].index ) => j < i

\* C2: in a live entry through openLiveTrade, every BUY (hedge) entry order
\* is placed before any SELL entry order.
C2_HedgeEntriesBeforeSellEntries ==
  \A i, j \in 1..Len(dn2Calls) :
    ( /\ dn2Calls[i].kind = "entry" /\ dn2Calls[i].side = "SELL"
      /\ dn2Calls[j].kind = "entry" /\ dn2Calls[j].side = "BUY" ) => j < i

\* C3: a market exit order is issued for a leg that still has a resting
\* SL/trail order id only after a cancel was issued for that leg in the same
\* run.
C3_CancelBeforeExit ==
  \A t \in DnTasks : \A j \in 1..Len(dnCalls[t]) :
    (dnCalls[t][j].kind = "exit" /\ dnCalls[t][j].resting) =>
      \E i \in 1..(j - 1) :
        dnCalls[t][i].kind = "cancel" /\ dnCalls[t][i].key = dnCalls[t][j].key

\* C4: a Monday time exit that closes 2 SELL and 2 BUY legs issues its
\* gateway calls in this order: the cancels of the legs' pending orders, then
\* the SELL exits callSell, putSell (ascending exitPriority), then the BUY
\* exits callBuy, putBuy; no exit precedes a cancel, and a leg whose order id
\* is still set when it is exited had its cancel issued.
C4_MondayExitOrder ==
  LET log   == dnCalls["monday"]
      exits == SelectSeq(log, LAMBDA c : c.kind = "exit")
  IN  Len(exits) = 4 =>
        /\ [n \in 1..4 |-> exits[n].key] = << "callSell", "putSell", "callBuy", "putBuy" >>
        /\ \A n \in 1..Len(log) : log[n].kind \in {"cancel", "exit"}
        /\ \A i, j \in 1..Len(log) :
             (log[i].kind = "exit" /\ log[j].kind = "cancel") => j < i
        /\ \A j \in 1..Len(log) :
             (log[j].kind = "exit" /\ log[j].resting) =>
               \E i \in 1..(j - 1) : log[i].kind = "cancel" /\ log[i].key = log[j].key

\* C4 witness: a live Monday exit ran on four active legs, each with a
\* resting SL order that was cancelled first
C4_Witness ==
  LET log == dnCalls["monday"] IN
  /\ Len(SelectSeq(log, LAMBDA c : c.kind = "exit")) = 4
  /\ \A k \in KeySet : \E n \in 1..Len(log) : log[n].kind = "cancel" /\ log[n].key = k
  /\ Len(dnHist) = 1 /\ dnHist[1].closeReason = "Monday 3:20 PM Exit"

\* C5: handlers on the position are serialized - while one handler is
\* suspended at an await, no other handler is running on the position.
C5_TicksSerialized == Cardinality(InFlight) <= 1

\* C6: a leg whose exit order failed keeps its ACTIVE status.
C6_FailedExitKeepsStatus ==
  \A L \in DOMAIN dnLegs : \A k \in KeySet :
    dnLegs[L][k].exitOrder = "failed" => dnLegs[L][k].status = "ACTIVE"

\* C7: every entry of the iron-condor ledger archives a position whose two
\* spreads were both EXITED.
C7_LedgerOnlyWhenAllExited ==
  \A n \in 1..Len(icHist) :
    icHist[n].callSpread = "EXITED" /\ icHist[n].putSpread = "EXITED"

\* C8: a checkEntry tick on an index whose position is not IDLE issues no
\* gateway call and changes no position and no ledger; and a position that is
\* not IDLE is replaced only by the empty position, never by a new one.
C8_EntryOnlyFromIdle ==
  [][\A i \in IndexSet :
       /\ (icLast'.op = "checkEntry" /\ icLast'.index = i /\ icPos[i].status # "IDLE")
            => (icPos' = icPos /\ icHist' = icHist /\ icCalls' = <<>>)
       /\ (icPos[i].status # "IDLE" /\ icPos'[i].gen # icPos[i].gen)
            => icPos'[i].status = "IDLE"]_vars

\* C8 witness: checkEntry has just run on an index whose position is ACTIVE,
\* without a gateway call
C8_Witness ==
  /\ icLast.op = "checkEntry"
  /\ icPos[icLast.index].status = "ACTIVE"
  /\ icCalls = <<>>

\* C9: systemRolls + discretionaryRolls of an iron-condor position never
\* exceeds MAX_ROLLS.
C9_RollsWithinMax ==
  \A i \in IndexSet :
    icPos[i].systemRolls + icPos[i].discretionaryRolls <= MAX_ROLLS

\* C10: closing a position that is already closed appends no ledger entry -
\* every ledger entry archives a position that was open, and no position is
\* archived twice.
C10_CloseIsIdempotent ==
  /\ \A n \in 1..Len(dnHist) : dnHist[n].was # "IDLE"
  /\ \A m, n \in 1..Len(dnHist) : m # n => dnHist[m].gen # dnHist[n].gen

C12_ClosedLegStaysClosed ==
  [][\A L \in (DOMAIN dnLegs) \cap (DOMAIN dnLegs') : \A k \in KeySet :
       dnLegs[L][k].status = "CLOSED" => dnLegs'[L][k].status = "CLOSED"]_vars

\* C12 witness: an open position with two legs closed by different triggers,
\* so that a handler ran on the position after the first leg was closed
C12_Witness ==
  /\ dnPos.status # "IDLE"
  /\ \E j, k \in KeySet :
       /\ dnLegs[dnPos.legs][j].status = "CLOSED"
       /\ dnLegs[dnPos.legs][k].status = "CLOSED"
       /\ dnLegs[dnPos.legs][j].closeReason # dnLegs[dnPos.legs][k].closeReason

C14_Exit4xIffExpansionAndCost ==
  btLast.monitored =>
    LET b == btLast.before
        e == btLast.exited
    IN  /\ b.callStatus = "ACTIVE" =>
              ((e.callStatus = "EXITED") <=>
                 /\ btLast.callCost >= 4 * b.callNetCredit
                 /\ btLast.callCost >= 4 * b.callNetCredit -
                      (IF b.putStatus = "ACTIVE" THEN b.putNetCredit - btLast.putCost ELSE 0))
        /\ b.putStatus = "ACTIVE" =>
              ((e.putStatus = "EXITED") <=>
                 /\ btLast.putCost >= 4 * b.putNetCredit
                 /\ btLast.putCost >= 4 * b.putNetCredit -
                      (IF e.callStatus = "ACTIVE" THEN b.callNetCredit - btLast.callCost ELSE 0))

\* C15: a firefight roll of a side is performed in a tick only if the 4x exit
\* did not fire for that side, the side's expansion is at least 3.0, the
\* opposing side's decay is at least 0.70 and the rolls used so far are below
\* the maximum; each roll adds exactly 1 to the roll count.  Stated of the
\* candle the backtest handled last: a roll shows as a raised net credit.
C15_RollOnlyWhenDue ==
  btLast.monitored =>
    LET b == btLast.before
        e == btLast.exited
        r == btLast.rolled
        callRolled == r.callNetCredit # e.callNetCredit
        putRolled  == r.putNetCredit # e.putNetCredit
        n(x) == IF x THEN 1 ELSE 0
    IN  /\ callRolled =>
              /\ b.callStatus = "ACTIVE" /\ e.callStatus = "ACTIVE"
              /\ btLast.callCost >= 3 * b.callNetCredit
              /\ (b.putNetCredit - btLast.putCost) * 100 >= 70 * b.putNetCredit
              /\ b.rolls < BtMaxRolls
        /\ putRolled =>
              /\ b.putStatus = "ACTIVE" /\ e.putStatus = "ACTIVE"
              /\ btLast.putCost >= 3 * b.putNetCredit
              /\ (b.callNetCredit - btLast.callCost) * 100 >= 70 * b.callNetCredit
              /\ b.rolls + n(callRolled) < BtMaxRolls
        /\ r.rolls = b.rolls + n(callRolled) + n(putRolled)

\* the second roll of the call side: expansion 3.3 on credit 28.75, with the
\* put side decayed by 0.90
C15_Witness ==
  /\ btLast.monitored
  /\ btLast.spot = 80745
  /\ btLast.before.rolls = 1
  /\ btLast.before.callNetCredit = 115000
  /\ btLast.rolled.callNetCredit = 132250
  /\ btLast.rolled.rolls = 2
  /\ btPos.callShortStrike = 80906

\* C16: in any monitor tick of a delta-neutral position where the aggregate
\* pnl is at or below -(60% of the net debit), the combined stop is evaluated
\* first: all legs still active are exited in that tick, SELL legs first, and
\* no per-leg stop or trail action is taken in it, for any number of legs
\* still active.  Stated of a step of the strategy engine's monitor on a
\* position entered at a net debit: the aggregate is that of the quoted
\* active legs, the only action is EXIT_ALL, no leg is left ACTIVE and no BUY
\* exit order precedes a SELL exit order.
C16_CombinedStopFirst ==
  [][( /\ dn2Last'.op = "monitorPosition"
       /\ dn2Pos.status \notin {"IDLE", "CLOSED"}
       /\ dn2Pos.netDebit > 0
       /\ SumPnl([k \in KeySet |->
                    [pnl |-> IF dn2Last'.q[k] = 0 \/ dn2Pos.legs[k].status # "ACTIVE" THEN 0
                             ELSE IF Dn2SideOf(k) = "BUY"
                             THEN (dn2Last'.q[k] - dn2Pos.legs[k].entryPremium) * LOT_SIZE
                             ELSE (dn2Pos.legs[k].entryPremium - dn2Last'.q[k]) * LOT_SIZE]],
                  dn2Pos.activeLegs) * 100 <= -(dn2Pos.netDebit * 60) )
     => ( /\ Len(dn2Last'.actions) = 1
          /\ dn2Last'.actions[1].type = "EXIT_ALL"
          /\ \A k \in KeySet : dn2Pos'.legs[k].status # "ACTIVE"
          /\ \A i, j \in 1..Len(dn2Calls') :
               (dn2Calls'[i].side = "BUY" /\ dn2Calls'[j].side = "SELL") => j < i )]_vars

\* C17: when a BUY leg's premium is at or below 40% of its entry premium,
\* the same tick closes that BUY leg together with the SELL leg of the same
\* option type; when a SELL leg's stop fires, only that SELL leg is closed and
\* every other leg keeps its status.  Stated of a step of the strategy
\* engine's monitor: a quoted ACTIVE BUY leg at its stop and its SELL leg are
\* not ACTIVE afterwards, and a tick whose actions are SELL stops only changes
\* the status of no leg but the SELL legs they name.
C17_LegStops ==
  [][dn2Last'.op = "monitorPosition" =>
       /\ \A b \in {"callBuy", "putBuy"} :
            ( /\ dn2Pos.legs[b].status = "ACTIVE"
              /\ dn2Last'.q[b] # 0
              /\ dn2Last'.q[b] * 100 <= dn2Pos.legs[b].entryPremium * 40 )
            => /\ dn2Pos'.legs[b].status # "ACTIVE"
               /\ dn2Pos'.legs[IF b = "callBuy" THEN "callSell" ELSE "putSell"].status
                    # "ACTIVE"
       /\ ( /\ dn2Last'.actions # << >>
            /\ \A n \in 1..Len(dn2Last'.actions) :
                 dn2Last'.actions[n].reason \in {"CALL_SELL_SL", "PUT_SELL_SL"} )
          => \A k \in KeySet :
               dn2Pos'.legs[k].status # dn2Pos.legs[k].status
                 => \E n \in 1..Len(dn2Last'.actions) :
                      dn2Last'.actions[n].legs = << k >>]_vars

\* C18: while a position is in last-leg trail mode, its locked profit floor
\* (lockedProfit / trailSL) never decreases from one monitor tick to the
\* next, whatever the sequence of premiums.  Stated of every step that leaves
\* the same position in the last-buy-leg phase.
C18_TrailFloorMonotone ==
  [][( /\ dn2Pos.status = "PARTIAL" /\ dn2Pos'.status = "PARTIAL"
       /\ dn2Pos'.gen = dn2Pos.gen )
     => ( /\ dn2Pos'.lockedProfit >= dn2Pos.lockedProfit
          /\ dn2Pos'.trailSL >= dn2Pos.trailSL
          /\ dn2Pos'.trailLevel >= dn2Pos.trailLevel )]_vars

\* the floor was raised twice (250, then 1000) and a later tick quoted the
\* last leg at a lower profit (1200) without hitting the trail stop
C18_Witness ==
  /\ dn2Pos.status = "PARTIAL"
  /\ dn2Pos.lastBuyLeg = "putBuy"
  /\ dn2Pos.legs["putBuy"].status = "ACTIVE"
  /\ dn2Pos.lockedProfit = 1000
  /\ dn2Pos.trailLevel = 2
  /\ dn2Last.op = "monitorPosition"
  /\ dn2Last.q["putBuy"] = 170
  /\ dn2Pos.pnl = 1200

\* C19: openPosition returns null and leaves the position IDLE exactly when
\* the combined net credit is below 0.8 x the index's target credit (12 for
\* NIFTY, 38 for SENSEX); with a combined credit at or above that threshold
\* it opens an ACTIVE position.  Stated of the call made last on a slot that
\* was IDLE; credits in paise.
C19_RejectsExactlyBelowThreshold ==
  icsLast.was = "IDLE" =>
    LET i      == icsLast.index
        credit == (icsLast.premiums["callSell"] - icsLast.premiums["callBuy"])
                    + (icsLast.premiums["putSell"] - icsLast.premiums["putBuy"])
        target == IF i = "NIFTY" THEN 1200 ELSE 3800
    IN  IF credit * 10 < target * 8
        THEN icsLast.ret = "null" /\ icsPos[i].status = "IDLE"
        ELSE icsLast.ret = "position" /\ icsPos[i].status = "ACTIVE"

\* C20: _expiryExit on an index whose position is ACTIVE, whatever gateway
\* orders fail, leaves the slot IDLE with no ACTIVE spread, and appends exactly
\* one ledger entry, which is that position's and holds no ACTIVE spread.
C20_ExpiryExitArchivesOnce ==
  [][\A i \in IndexSet :
       (icLast'.op = "_expiryExit" /\ icLast'.index = i /\ icPos[i].status = "ACTIVE")
         => /\ icPos'[i].status = "IDLE"
            /\ icPos'[i].callSpread.status # "ACTIVE"
            /\ icPos'[i].putSpread.status # "ACTIVE"
            /\ Len(icHist') = Len(icHist) + 1
            /\ SubSeq(icHist', 1, Len(icHist)) = icHist
            /\ icHist'[Len(icHist')].index = i
            /\ icHist'[Len(icHist')].gen = icPos[i].gen
            /\ icHist'[Len(icHist')].callSpread # "ACTIVE"
            /\ icHist'[Len(icHist')].putSpread # "ACTIVE"]_vars

\* C20 witness: _expiryExit has just archived a position although a gateway
\* exit order of the run was rejected
C20_Witness ==
  /\ icLast.op = "_expiryExit"
  /\ \E n \in 1..Len(icCalls) : icCalls[n].kind = "exit" /\ ~icCalls[n].ok
  /\ icPos[icLast.index].status = "IDLE"
  /\ Len(icHist) > 0
  /\ icHist[Len(icHist)].index = icLast.index
  /\ icHist[Len(icHist)].closeReason = "Both Spreads Exited"

\* C21: a monitor tick of the delta-neutral engine whose quote lookup returns
\* no price for any leg places no order and leaves the position - status,
\* legs and pnl - as it was.
C21_MissingQuoteSkipsTick ==
  [][(/\ MayStart("monitor")
      /\ dnRunning
      /\ dnPos.status # "IDLE"
      /\ Whole("monitor", Op("Monitor"), NoRes.q))
       => (/\ dnPos' = dnPos
           /\ dnLegs' = dnLegs
           /\ dnCalls'["monitor"] = <<>>)]_vars

\* C22: when checkAdjustmentTriggers is evaluated on the expiry day with a
\* side's decay at 0.80 or more and the discretionary budget not used up, it
\* stores an INFO alert for that side and nothing else of the position moves:
\* called by itself it changes only the alerts; called through updateMTM, the
\* roll counters, the adjustments and both spreads' status, premiums and net
\* credit stay as they were.
C22_DiscretionaryOnlyAlerts ==
  [][\A i \in IndexSet :
       \A n \in {3, 4} :
         (/\ icsLast'.op \in {"checkAdjustmentTriggers", "updateMTM"}
          /\ icsLast'.index = i
          /\ icsLast'.trig # << >>
          /\ icsLast'.isExpiryDay
          /\ icsLast'.trig[n] >= DISCRETIONARY_DECAY
          /\ icsPos[i].discretionaryRolls < MAX_DISCRETIONARY)
           => (/\ \E k \in 1..Len(icsPos'[i].alerts) :
                    icsPos'[i].alerts[k] =
                      [type |-> "DISCRETIONARY_ROLL",
                       side |-> IF n = 3 THEN "CALL" ELSE "PUT", severity |-> "INFO"]
               /\ icsPos'[i].systemRolls = icsPos[i].systemRolls
               /\ icsPos'[i].discretionaryRolls = icsPos[i].discretionaryRolls
               /\ icsPos'[i].adjustments = icsPos[i].adjustments
               /\ icsPos'[i].status = icsPos[i].status
               /\ \A f \in {"callSpread", "putSpread"} :
                    /\ icsPos'[i][f].status = icsPos[i][f].status
                    /\ icsPos'[i][f].sellPremium = icsPos[i][f].sellPremium
                    /\ icsPos'[i][f].buyPremium = icsPos[i][f].buyPremium
                    /\ icsPos'[i][f].netCredit = icsPos[i][f].netCredit
               /\ icsLast'.op = "checkAdjustmentTriggers"
                    => icsPos'[i] = [icsPos[i] EXCEPT !.alerts = icsPos'[i].alerts])]_vars

\* C22 witness: updateMTM has just stored the discretionary suggestion for the
\* call side of an ACTIVE position on its expiry day
C22_Witness ==
  /\ icsLast.op = "updateMTM"
  /\ icsLast.isExpiryDay
  /\ icsLast.trig[3] >= DISCRETIONARY_DECAY
  /\ icsPos[icsLast.index].status = "ACTIVE"
  /\ icsPos[icsLast.index].discretionaryRolls = 0
  /\ \E k \in 1..Len(icsPos[icsLast.index].alerts) :
       icsPos[icsLast.index].alerts[k] =
         [type |-> "DISCRETIONARY_ROLL", side |-> "CALL", severity |-> "INFO"]

\* C23: two runs of a backtest harness on the same candles and the same
\* configuration write the same result.
C23_BacktestDeterministic ==
  btrRuns.runs = 2 => btrRuns.first = btrRuns.second

\* C24: the ATM scalping engine opens at most one trade in a trading day - no
\* two trades, archived or open, carry the same date.
C24_OneTradePerDay ==
  /\ \A m, n \in 1..Len(atmHist) : m # n => atmHist[m].date # atmHist[n].date
  /\ atmPos.status = "ACTIVE" =>
       \A n \in 1..Len(atmHist) : atmHist[n].date # atmPos.date

\* C25: checkSetup returns a setup only for two candles of opposite colours
\* (one closing above its open, the other not) whose combined range, highest
\* high minus lowest low, is below 30 points.
C25_SetupNeedsRangeBelow30 ==
  (scLast.op = "addCandle" /\ scLast.found) =>
    LET c1 == scLast.c1
        c2 == scLast.c2
        hh == IF c1.high >= c2.high THEN c1.high ELSE c2.high
        ll == IF c1.low <= c2.low THEN c1.low ELSE c2.low
    IN  /\ (c1.close > c1.open) # (c2.close > c2.open)
        /\ hh - ll < 30

\* C26: a paper trade closed with reason TRAIL_SL_HIT realised at least
\* Rs 3,000.
C26_TrailStopLocksTrigger ==
  \A n \in 1..Len(scStrategy.paperTrades) :
    scStrategy.paperTrades[n].closeReason = "TRAIL_SL_HIT"
      => scStrategy.paperTrades[n].pnl >= 300000

\* C27: for every leg of every position at most one market exit order is
\* placed at the gateway, whichever handlers overlap at their awaits.
C27_OneExitOrderPerLeg ==
  \A L \in DOMAIN dnLegs : \A k \in KeySet : dnLegs[L][k].exitCount <= 1

\* C28: in no legs object is a SELL leg ACTIVE while the BUY leg of the same
\* option type, its hedge, is CLOSED.
C28_SellNeverOutlivesHedge ==
  \A L \in DOMAIN dnLegs :
    /\ ~(dnLegs[L]["callSell"].status = "ACTIVE" /\ dnLegs[L]["callBuy"].status = "CLOSED")
    /\ ~(dnLegs[L]["putSell"].status = "ACTIVE" /\ dnLegs[L]["putBuy"].status = "CLOSED")

\* C29: after a checkEntry run every entry order that was placed is either
\* recorded in the position of its index, which is then not IDLE, or was
\* unwound by a later exit order for the same leg in the same run.
C29_NoOrphanEntryOrder ==
  icLast.op = "checkEntry" =>
    \A n \in 1..Len(icCalls) :
      (icCalls[n].kind = "entry" /\ icCalls[n].ok) =>
        \/ icPos[icLast.index].status # "IDLE"
        \/ \E m \in (n + 1)..Len(icCalls) :
             icCalls[m].kind = "exit" /\ icCalls[m].ok /\ icCalls[m].leg = icCalls[n].leg

\* C30: the ledger grows by exactly one entry in a step that takes an open
\* position to IDLE and by none in any other step, calls made while the
\* position is IDLE included; and no entry archives an empty position.
C30_OneLedgerEntryPerPosition ==
  [][/\ Len(dnHist') = Len(dnHist)
                         + (IF dnPos.status # "IDLE" /\ dnPos'.status = "IDLE" THEN 1 ELSE 0)
     /\ \A n \in 1..Len(dnHist') : dnHist'[n].was # "IDLE"]_vars

\* C31: in last-leg trail mode every monitor tick that quotes the last leg
\* leaves lockedProfit at the larger of its old value and L(p), p the leg's
\* pnl at the tick, with L(p) = 0 below 1000 and 250 + 750 x (p div 1000 - 1)
\* from 1000 on - so that it is L of the highest pnl seen, also after a jump
\* of several steps in one tick.
C31_LockFollowsStepTable ==
  [][LET lb == dn2Pos.lastBuyLeg
         p  == (dn2Last'.q[lb] - dn2Pos.legs[lb].entryPremium) * 20
         L  == IF p < 1000 THEN 0 ELSE 250 + 750 * ((p \div 1000) - 1)
     IN  ( /\ dn2Pos.status = "PARTIAL" /\ lb # ""
           /\ dn2Pos.legs[lb].status = "ACTIVE"
           /\ dn2Last'.op = "monitorPosition" /\ dn2Last'.q[lb] # 0
           /\ dn2Pos'.status = "PARTIAL" /\ dn2Pos'.gen = dn2Pos.gen )
         => dn2Pos'.lockedProfit = (IF L > dn2Pos.lockedProfit THEN L
                                    ELSE dn2Pos.lockedProfit)]_vars

\* C32: between handlers a position is in trail mode (status PARTIAL or
\* lastBuyLeg set) only while exactly one BUY leg is ACTIVE and no SELL leg
\* is ACTIVE.
C32_TrailModeNeedsOneBuyLeg ==
  (dnPos.status = "PARTIAL" \/ dnPos.lastBuyLeg # "") =>
    LET lg == dnLegs[dnPos.legs]
    IN  /\ Cardinality({k \in {"callBuy", "putBuy"} : lg[k].status = "ACTIVE"}) = 1
        /\ \A k \in {"callSell", "putSell"} : lg[k].status # "ACTIVE"

\* C33: the exit orders one handler issues for legs of the same side are in
\* ascending exitPriority (callSell 1, putSell 2, callBuy 3, putBuy 4),
\* whatever order the caller listed the legs in.
C33_SameSideExitsByPriority ==
  LET prio == [k \in KeySet |-> CASE k = "callSell" -> 1 [] k = "putSell" -> 2
                                  [] k = "callBuy" -> 3 [] OTHER -> 4]
  IN  \A t \in DnTasks : \A i, j \in 1..Len(dnCalls[t]) :
        ( /\ i < j
          /\ dnCalls[t][i].kind = "exit" /\ dnCalls[t][j].kind = "exit"
          /\ dnCalls[t][i].side = dnCalls[t][j].side )
        => prio[dnCalls[t][i].key] < prio[dnCalls[t][j].key]

\* C34: a handler that runs while a leg is CLOSED places no exit order for
\* that leg and leaves the leg as it was (status, entry premium, close
\* reason).
C34_ClosedLegCloseIsNoOp ==
  [][dn2Running' = dn2Running =>
       \A k \in KeySet :
         dn2Pos.legs[k].status = "CLOSED" =>
           /\ \A n \in 1..Len(dn2Calls') :
                ~(dn2Calls'[n].kind = "exit" /\ dn2Calls'[n].key = k)
           /\ dn2Pos'.legs[k].status = "CLOSED" => dn2Pos'.legs[k] = dn2Pos.legs[k]]_vars

\* C35: while the scalping engine's running flag is false, a scheduled candle
\* or monitor tick opens no trade and changes neither the open trade nor the
\* list of closed trades.
C35_StoppedEngineIsInert ==
  [][( /\ ~scRunning /\ ~scRunning'
       /\ scLast'.op \in {"addCandle", "monitorTrade"} )
     => ( /\ scStrategy'.currentTrade = scStrategy.currentTrade
          /\ scStrategy'.paperTrades = scStrategy.paperTrades )]_vars

\* C36: the ledger entry an expiry exit writes once both spreads are exited
\* carries as pnl the sum over both spreads of (netCredit - cost at exit) x
\* lot, the cost at exit being the spread's currentPremium (its netCredit
\* when none was observed); premiums in tenths.
C36_ArchivedPnlIsRealised ==
  [][\A i \in IndexSet :
       ( /\ icLast'.op = "_expiryExit" /\ icLast'.index = i
         /\ icPos[i].status = "ACTIVE"
         /\ Len(icHist') = Len(icHist) + 1
         /\ icHist'[Len(icHist')].closeReason = "Both Spreads Exited" )
       => LET real(sp) == (sp.netCredit - (IF sp.currentPremium # 0 THEN sp.currentPremium
                                           ELSE sp.netCredit)) * CFG[i].lot
          IN  icHist'[Len(icHist')].pnl =
                RoundDiv(real(icPos[i].callSpread) + real(icPos[i].putSpread), 10)]_vars

\* C37: the roll branch of monitorFirefight is reachable - from an ACTIVE
\* position with both spreads open and a roll still allowed there are spot
\* observations (here up to three, 100 points apart around the strikes) after
\* which monitorFirefight has run executeShift and systemRolls is higher.
C37_RollBranchReachable ==
  \A i \in IndexSet :
    ( /\ icPos[i].status = "ACTIVE"
      /\ icPos[i].callSpread.status = "ACTIVE" /\ icPos[i].putSpread.status = "ACTIVE"
      /\ icPos[i].systemRolls + icPos[i].discretionaryRolls < MAX_ROLLS )
    => LET spots == {icPos[i].spotAtEntry + 100 * d : d \in -5..5}
       IN  \E s1, s2, s3 \in spots :
             IcMonitorOne(IcMonitorOne(IcMonitorOne(IcView({}), i, s1), i, s2), i, s3)
               .pos[i].systemRolls > icPos[i].systemRolls

\* no monitorFirefight tick rolls: it leaves systemRolls of every index as it
\* was, or at 0 when it archived the position
IcMonitorNeverRolls ==
  [][icLast'.op = "monitorFirefight" =>
       \A i \in IndexSet : icPos'[i].systemRolls <= icPos[i].systemRolls]_vars

C39_MaxDrawdownIsPeakToTrough ==
  LET pnls == btrRuns.input
      cum(n) == BtrSum(SubSeq(pnls, 1, n))
      peak(n) == CHOOSE p \in {cum(m) : m \in 0..n} : \A m \in 0..n : cum(m) <= p
      dds == {peak(n) - cum(n) : n \in 0..Len(pnls)}
  IN  btrRuns.runs > 0 =>
        btrRuns.first.maxDrawdown = (CHOOSE d \in dds : \A e \in dds : e <= d)

\* C40: when the delta-closest buy and sell options of one type share a
\* strike, findDeltaStrikes gives the sell leg the nearest chain strike
\* strictly beyond the buy strike on the out-of-the-money side (the next
\* higher for calls, the next lower for puts), whatever the order of the
\* chain, and returns null when the chain holds no such strike.
C40_CollisionTakesNextStrike ==
  LET ch == fdsLast.chain
      found == FdsNone \notin {fdsLast.callBuyBest, fdsLast.callSellBest,
                               fdsLast.putBuyBest, fdsLast.putSellBest}
      above == {ch[i].strike : i \in {j \in 1..Len(ch) :
                  ch[j].type = "CE" /\ ch[j].strike > fdsLast.callBuyBest.strike}}
      below == {ch[i].strike : i \in {j \in 1..Len(ch) :
                  ch[j].type = "PE" /\ ch[j].strike < fdsLast.putBuyBest.strike}}
  IN  (fdsLast.called /\ found) =>
        /\ fdsLast.callBuyBest.strike = fdsLast.callSellBest.strike =>
             IF above = {} THEN ~fdsLast.ret.ok
             ELSE fdsLast.ret.ok =>
                    \A k \in above : fdsLast.ret.callSell.strike <= k
        /\ fdsLast.putBuyBest.strike = fdsLast.putSellBest.strike =>
             IF below = {} THEN ~fdsLast.ret.ok
             ELSE fdsLast.ret.ok =>
                    \A k \in below : fdsLast.ret.putSell.strike >= k

====
